---- MODULE Spec2Model ----
(***************************************************************************)
(* State-machine model of the hubble per-fid CRDT stores (ReactionStore    *)
(* and CastStore) and of the StoreEventHandler they publish to.            *)
(*                                                                         *)
(* A store instance is a view on an ordered key-value database: primary    *)
(* records keyed by (fid, tsHash), one slot index for Adds, one for        *)
(* Removes, and secondary (by-target / by-parent) index keys.  merge,      *)
(* pruneMessages and revokeMessagesBySigner each run one atomic batch and  *)
(* then publish their events.                                              *)
(***************************************************************************)
EXTENDS Integers, Sequences, FiniteSets, TLC

(***************************************************************************)
(* Bounds of the model.                                                    *)
(***************************************************************************)
MaxTs == 2
MaxNonce == 1
MaxSeq == 3

\* The fid the fixtures are created for, and one other fid.
fid == 1

otherFid == 2

Fids == {fid, otherFid}

Timestamps == 1..MaxTs
Nonces == 0..MaxNonce

\* protobufs.ReactionType values built by ReactionTypeFactory.
ReactionTypes == {"LIKE", "RECAST"}

\* The cast every reaction of the fixtures targets, and the parent of every cast.
castId == 1

\* The two signer keys messages are created with.
Signers == {"signerA", "signerB"}

StoreKinds == {"Reaction", "Cast"}

(***************************************************************************)
(* Messages.  A message is the record                                      *)
(*   [type, fid, timestamp, hash, signer, reactionType, target]            *)
(* target is the reaction's target cast, a CastRemove's targetHash or a    *)
(* CastAdd's parent cast.                                                  *)
(***************************************************************************)
TypeRadix == Cardinality(Fids) * MaxTs * (MaxTs + 2)

HashRadix == 2 * TypeRadix

\* Rank of a message type inside one nonce block of the hash space.
TypeRank(type) ==
    CASE type = "ReactionAdd" -> 0
      [] type = "ReactionRemove" -> 1
      [] type = "CastRemove" -> 0
      [] type = "CastAdd" -> 1
      [] type = "UserDataAdd" -> 0

\* The message hash: a digest of the message data, distinct for distinct data.
\* nonce stands for the data that the other fields of the model leave out.
MessageHash(type, nonce, dataCode) ==
    nonce * HashRadix + TypeRank(type) * TypeRadix + dataCode + 1

MaxHash == (MaxNonce + 1) * HashRadix

\* The key the message was signed with.
SignerOf(timestamp, nonce) ==
    IF (timestamp + nonce) % 2 = 0 THEN "signerA" ELSE "signerB"

ReactionTypeCode(rt) == IF rt = "LIKE" THEN 0 ELSE 1

ReactionMessage(type, f, timestamp, rt, nonce) ==
    [type |-> type, fid |-> f, timestamp |-> timestamp,
     hash |-> MessageHash(type, nonce,
                 ((f - 1) * MaxTs + (timestamp - 1)) * 2 + ReactionTypeCode(rt)),
     signer |-> SignerOf(timestamp, nonce),
     reactionType |-> rt, target |-> castId]

\* The nonces of the messages built for an fid: every nonce for fid, one
\* for the other fid.
NoncesOf(f) == IF f = fid THEN Nonces ELSE {0}

\* The fixtures of the Reaction store: LIKE reactions of fid with every
\* timestamp and nonce, LIKE reactions of the other fid with every
\* timestamp, and the RECAST pair of fid (reactionAddRecast, and
\* reactionRemoveRecast with a timestamp that is not earlier).
ReactionMessages ==
    UNION { { ReactionMessage(type, f, ts, "LIKE", n) :
                type \in {"ReactionAdd", "ReactionRemove"},
                ts \in Timestamps, n \in NoncesOf(f) } : f \in Fids }
    \cup { ReactionMessage("ReactionAdd", fid, 1, "RECAST", 0),
           ReactionMessage("ReactionRemove", fid, MaxTs, "RECAST", 0) }

CastAddMessage(f, timestamp) ==
    [type |-> "CastAdd", fid |-> f, timestamp |-> timestamp,
     hash |-> MessageHash("CastAdd", 0, (f - 1) * MaxTs + (timestamp - 1)),
     signer |-> SignerOf(timestamp, 0),
     reactionType |-> "NONE", target |-> castId]

CastRemoveMessage(f, timestamp, targetTs, nonce) ==
    [type |-> "CastRemove", fid |-> f, timestamp |-> timestamp,
     hash |-> MessageHash("CastRemove", nonce,
                 ((f - 1) * MaxTs + (timestamp - 1)) * MaxTs + (targetTs - 1)),
     signer |-> SignerOf(timestamp, nonce),
     reactionType |-> "NONE", target |-> CastAddMessage(f, targetTs).hash]

\* The casts of the fixtures: the earliest and the latest cast of fid and one
\* cast of the other fid.
CastAddKeys == { <<fid, 1>>, <<fid, MaxTs>>, <<otherFid, 1>> }

\* The fixtures of the Cast store: the casts, and CastRemoves of each of them
\* with every timestamp (and, for fid, every nonce).
CastMessages ==
    { CastAddMessage(k[1], k[2]) : k \in CastAddKeys }
    \cup UNION { { CastRemoveMessage(k[1], ts, k[2], n) :
                     ts \in Timestamps, n \in NoncesOf(k[1]) } : k \in CastAddKeys }

Universe == ReactionMessages \cup CastMessages

\* protobufs.UserDataType values built by UserDataTypeFactory.
UserDataTypes == {"PFP", "BIO"}

\* A UserDataAdd is the record [type, fid, timestamp, hash, signer, userDataType].
UserDataAddMessage(f, timestamp, udt, nonce) ==
    [type |-> "UserDataAdd", fid |-> f, timestamp |-> timestamp,
     hash |-> MessageHash("UserDataAdd", nonce,
                 ((f - 1) * MaxTs + (timestamp - 1)) * 2 + (IF udt = "PFP" THEN 0 ELSE 1)),
     signer |-> SignerOf(timestamp, nonce),
     userDataType |-> udt]

\* The messages given to the UserData store: UserDataAdds of fid with every
\* type, timestamp and nonce, and BIO messages of the other fid.
UserDataMessages ==
    { UserDataAddMessage(fid, ts, udt, n) :
         ts \in Timestamps, udt \in UserDataTypes, n \in Nonces }
    \cup { UserDataAddMessage(otherFid, ts, "BIO", 0) : ts \in Timestamps }

IsAdd(m) == m.type \in {"ReactionAdd", "CastAdd", "UserDataAdd"}

IsRemove(m) == m.type \in {"ReactionRemove", "CastRemove"}

\* The message types a store instance of the given kind accepts.
MessagesOf(k) ==
    CASE k = "Reaction" -> ReactionMessages
      [] k = "Cast" -> CastMessages
      [] k = "UserData" -> UserDataMessages

(***************************************************************************)
(* Keys.                                                                   *)
(***************************************************************************)
\* makeTsHash: 4-byte big-endian timestamp followed by the hash, compared as
\* raw bytes, i.e. the timestamp is the most significant part.
makeTsHash(timestamp, hash) == timestamp * (MaxHash + 1) + hash

TsHashOf(m) == makeTsHash(m.timestamp, m.hash)

\* The timestamp part of a tsHash (its first four bytes).
TsHashTimestamp(tsHash) == tsHash \div (MaxHash + 1)

\* makeMessagePrimaryKey(fid, postfix, tsHash); one postfix per store.
PrimaryKey(m) == <<m.fid, TsHashOf(m)>>

\* The conflict slot of a message.
SlotKey(m) ==
    CASE m.type \in {"ReactionAdd", "ReactionRemove"} -> <<m.fid, m.reactionType, m.target>>
      [] m.type = "CastAdd" -> <<m.fid, m.hash>>
      [] m.type = "CastRemove" -> <<m.fid, m.target>>
      [] m.type = "UserDataAdd" -> <<m.fid, m.userDataType>>

\* The secondary index keys of a message: reactions by target cast, casts by
\* parent; Removes and UserDataAdds have none.
IndexKeys(m) ==
    IF m.type \in {"ReactionAdd", "CastAdd"}
    THEN { <<m.target, m.fid, TsHashOf(m)>> } ELSE {}

(***************************************************************************)
(* The key-value substrate: partial functions with put and del.            *)
(***************************************************************************)
Put(f, k, v) == [x \in (DOMAIN f) \cup {k} |-> IF x = k THEN v ELSE f[x]]

Del(f, k) == [x \in (DOMAIN f) \ {k} |-> f[x]]

EmptyMap == [x \in {} |-> 0]

EmptyStore == [messages |-> EmptyMap, adds |-> EmptyMap, removes |-> EmptyMap, index |-> {}]

\* Faulty variant of the deletion: the primary record goes, the secondary
\* index entries stay.
DeleteMessageKeepsIndex(s, m) ==
    [messages |-> Del(s.messages, PrimaryKey(m)),
     adds |-> IF IsAdd(m) THEN Del(s.adds, SlotKey(m)) ELSE s.adds,
     removes |-> IF IsRemove(m) THEN Del(s.removes, SlotKey(m)) ELSE s.removes,
     index |-> s.index]

\* The batch operations that delete one message: its primary record, its slot
\* index entry and its secondary index entries.
DeleteMessage(s, m) ==
    [messages |-> Del(s.messages, PrimaryKey(m)),
     adds |-> IF IsAdd(m) THEN Del(s.adds, SlotKey(m)) ELSE s.adds,
     removes |-> IF IsRemove(m) THEN Del(s.removes, SlotKey(m)) ELSE s.removes,
     index |-> s.index \ IndexKeys(m)]

\* Faulty variant of the insertion: the records of the fid that are already
\* stored are rewritten with the signer of the new message.
PutMessageRestamp(s, m) ==
    [messages |-> Put([k \in DOMAIN s.messages |->
                          IF k[1] = m.fid THEN [s.messages[k] EXCEPT !.signer = m.signer]
                          ELSE s.messages[k]],
                      PrimaryKey(m), m),
     adds |-> IF IsAdd(m) THEN Put(s.adds, SlotKey(m), TsHashOf(m)) ELSE s.adds,
     removes |-> IF IsRemove(m) THEN Put(s.removes, SlotKey(m), TsHashOf(m)) ELSE s.removes,
     index |-> s.index \cup IndexKeys(m)]

\* The batch operations that insert one message.
PutMessage(s, m) ==
    [messages |-> Put(s.messages, PrimaryKey(m), m),
     adds |-> IF IsAdd(m) THEN Put(s.adds, SlotKey(m), TsHashOf(m)) ELSE s.adds,
     removes |-> IF IsRemove(m) THEN Put(s.removes, SlotKey(m), TsHashOf(m)) ELSE s.removes,
     index |-> s.index \cup IndexKeys(m)]

RECURSIVE DeleteMany(_, _)
DeleteMany(s, ms) ==
    IF ms = <<>> THEN s ELSE DeleteMany(DeleteMessage(s, Head(ms)), Tail(ms))

(***************************************************************************)
(* Conflict resolution.                                                    *)
(***************************************************************************)
Kind(m) == IF IsAdd(m) THEN "Add" ELSE "Remove"

\* Order of message a against message b of the same slot: 1 when a wins, -1
\* when b wins, 0 when they are the same message.  Timestamp first, then
\* Remove over Add, then the hash.
\* Faulty variants of messageCompare, used to show that the properties
\* below depend on each step of the rule.
\* (a) compares timestamps only: at equal timestamps the later arrival wins.
messageCompareTimestampOnly(aKind, aTsHash, bKind, bTsHash) ==
    IF TsHashTimestamp(aTsHash) > TsHashTimestamp(bTsHash) THEN 1
    ELSE IF TsHashTimestamp(aTsHash) < TsHashTimestamp(bTsHash) THEN -1
    ELSE 0

\* (b) compares the kinds before the timestamps.
messageCompareKindFirst(aKind, aTsHash, bKind, bTsHash) ==
    IF aKind = "Remove" /\ bKind = "Add" THEN 1
    ELSE IF aKind = "Add" /\ bKind = "Remove" THEN -1
    ELSE IF aTsHash > bTsHash THEN 1
    ELSE IF aTsHash < bTsHash THEN -1
    ELSE 0

\* (c) leaves the kinds out: timestamp, then hash.
messageCompareNoKind(aKind, aTsHash, bKind, bTsHash) ==
    IF aTsHash > bTsHash THEN 1
    ELSE IF aTsHash < bTsHash THEN -1
    ELSE 0

\* (d) breaks ties towards the smaller hash.
messageCompareLowHash(aKind, aTsHash, bKind, bTsHash) ==
    IF TsHashTimestamp(aTsHash) > TsHashTimestamp(bTsHash) THEN 1
    ELSE IF TsHashTimestamp(aTsHash) < TsHashTimestamp(bTsHash) THEN -1
    ELSE IF aKind = "Remove" /\ bKind = "Add" THEN 1
    ELSE IF aKind = "Add" /\ bKind = "Remove" THEN -1
    ELSE IF aTsHash < bTsHash THEN 1
    ELSE IF aTsHash > bTsHash THEN -1
    ELSE 0

messageCompare(aKind, aTsHash, bKind, bTsHash) ==
    IF TsHashTimestamp(aTsHash) > TsHashTimestamp(bTsHash) THEN 1
    ELSE IF TsHashTimestamp(aTsHash) < TsHashTimestamp(bTsHash) THEN -1
    ELSE IF aKind = "Remove" /\ bKind = "Add" THEN 1
    ELSE IF aKind = "Add" /\ bKind = "Remove" THEN -1
    ELSE IF aTsHash > bTsHash THEN 1
    ELSE IF aTsHash < bTsHash THEN -1
    ELSE 0

Rejected(s, result, text) == [result |-> result, text |-> text, store |-> s, deleted |-> <<>>]

\* Faulty variants of the batch: (a) the superseded messages are deleted but
\* not reported; (b) the superseded messages are reported but stay live.
AdmittedUnreported(s, m, deleted) ==
    [result |-> "ok", text |-> "", store |-> PutMessage(DeleteMany(s, deleted), m),
     deleted |-> <<>>]

AdmittedWithoutDelete(s, m, deleted) ==
    [result |-> "ok", text |-> "", store |-> PutMessage(s, m), deleted |-> deleted]

\* Faulty variant of the batch: the slot and index entries of the superseded
\* messages are deleted, their primary records are left behind.
AdmittedKeepsPrimary(s, m, deleted) ==
    [result |-> "ok", text |-> "",
     store |-> PutMessage([DeleteMany(s, deleted) EXCEPT !.messages = s.messages], m),
     deleted |-> deleted]

\* The atomic batch of a winning merge: delete the superseded records with
\* their index entries, insert the winner with its index entries.
Admitted(s, m, deleted) ==
    [result |-> "ok", text |-> "", store |-> PutMessage(DeleteMany(s, deleted), m),
     deleted |-> deleted]

\* Faulty variant of the lookup: the live Remove of the slot is not found.
ExistingRemoveNotFound(s, m) == <<>>

\* The live Remove (Add) of the slot of m, as a list of at most one message.
ExistingRemove(s, m) ==
    IF SlotKey(m) \in DOMAIN s.removes
    THEN << s.messages[<<m.fid, s.removes[SlotKey(m)]>>] >> ELSE <<>>

\* Faulty variant of the lookup: the live Add of any slot of the fid.
ExistingAddAnySlot(s, m) ==
    LET ks == { k \in DOMAIN s.adds : k[1] = m.fid }
    IN  IF ks = {} THEN <<>>
        ELSE << s.messages[<<m.fid, s.adds[CHOOSE k \in ks : TRUE]>>] >>

ExistingAdd(s, m) ==
    IF SlotKey(m) \in DOMAIN s.adds
    THEN << s.messages[<<m.fid, s.adds[SlotKey(m)]>>] >> ELSE <<>>

\* Faulty variant of the conflict check: the incoming message never loses.
LosesNever(m, existing) == FALSE

\* Does message m lose against (or equal) one of the existing messages?
Loses(m, existing) ==
    \E i \in 1..Len(existing) :
        messageCompare(Kind(existing[i]), TsHashOf(existing[i]), Kind(m), TsHashOf(m)) > 0

\* Faulty variants of ReactionStore.merge: (a) without the duplicate check;
\* (b) writing the primary record of the message before the conflict checks.
ReactionMergeTxnNoDuplicateCheck(s, m) ==
    LET existingRemove == ExistingRemove(s, m)
        existingAdd == ExistingAdd(s, m)
    IN  IF Loses(m, existingRemove)
        THEN Rejected(s, "bad_request.conflict",
                      "message conflicts with a more recent ReactionRemove")
        ELSE IF Loses(m, existingAdd)
        THEN Rejected(s, "bad_request.conflict",
                      "message conflicts with a more recent ReactionAdd")
        ELSE Admitted(s, m, existingRemove \o existingAdd)

ReactionMergeTxnEarlyPut(s, m) ==
    LET existingRemove == ExistingRemove(s, m)
        existingAdd == ExistingAdd(s, m)
        written == [s EXCEPT !.messages = Put(s.messages, PrimaryKey(m), m)]
    IN  IF PrimaryKey(m) \in DOMAIN s.messages
        THEN Rejected(s, "bad_request.duplicate", "message has already been merged")
        ELSE IF Loses(m, existingRemove)
        THEN Rejected(written, "bad_request.conflict",
                      "message conflicts with a more recent ReactionRemove")
        ELSE IF Loses(m, existingAdd)
        THEN Rejected(written, "bad_request.conflict",
                      "message conflicts with a more recent ReactionAdd")
        ELSE Admitted(s, m, existingRemove \o existingAdd)

\* Faulty variant (c): the conflict text names the kind of the incoming
\* message instead of the kind of the live winner.
ReactionMergeTxnNamesIncoming(s, m) ==
    LET existingRemove == ExistingRemove(s, m)
        existingAdd == ExistingAdd(s, m)
    IN  IF PrimaryKey(m) \in DOMAIN s.messages
        THEN Rejected(s, "bad_request.duplicate", "message has already been merged")
        ELSE IF Loses(m, existingRemove) \/ Loses(m, existingAdd)
        THEN Rejected(s, "bad_request.conflict",
                      IF m.type = "ReactionRemove"
                      THEN "message conflicts with a more recent ReactionRemove"
                      ELSE "message conflicts with a more recent ReactionAdd")
        ELSE Admitted(s, m, existingRemove \o existingAdd)

\* ReactionStore.merge up to its batch: duplicate check, lookup of the
\* slot's winner in the Remove and the Add index, conflict rule, batch.
ReactionMergeTxn(s, m) ==
    LET existingRemove == ExistingRemove(s, m)
        existingAdd == ExistingAdd(s, m)
    IN  IF PrimaryKey(m) \in DOMAIN s.messages
        THEN Rejected(s, "bad_request.duplicate", "message has already been merged")
        ELSE IF Loses(m, existingRemove)
        THEN Rejected(s, "bad_request.conflict",
                      "message conflicts with a more recent ReactionRemove")
        ELSE IF Loses(m, existingAdd)
        THEN Rejected(s, "bad_request.conflict",
                      "message conflicts with a more recent ReactionAdd")
        ELSE Admitted(s, m, existingRemove \o existingAdd)

\* Faulty variants of CastStore.merge: (a) a CastAdd that is compared with
\* the live CastRemove by the generic rule; (b) a CastRemove that leaves the
\* CastAdd of its target in place.
CastAddMergeTxnGeneric(s, m) ==
    IF SlotKey(m) \in DOMAIN s.adds
    THEN Rejected(s, "bad_request.duplicate", "message has already been merged")
    ELSE IF Loses(m, ExistingRemove(s, m))
    THEN Rejected(s, "bad_request.conflict", "message conflicts with a CastRemove")
    ELSE Admitted(s, m, ExistingRemove(s, m))

CastRemoveMergeTxnKeepsAdd(s, m) ==
    LET existingRemove == ExistingRemove(s, m)
    IN  IF existingRemove # <<>> /\ TsHashOf(existingRemove[1]) > TsHashOf(m)
        THEN Rejected(s, "bad_request.conflict",
                      "message conflicts with a more recent CastRemove")
        ELSE IF existingRemove # <<>> /\ TsHashOf(existingRemove[1]) = TsHashOf(m)
        THEN Rejected(s, "bad_request.duplicate", "message has already been merged")
        ELSE Admitted(s, m, existingRemove)

\* Faulty variant of the CastAdd merge: the Remove set is not looked at.
CastAddMergeTxnIgnoresRemove(s, m) ==
    IF SlotKey(m) \in DOMAIN s.adds
    THEN Rejected(s, "bad_request.duplicate", "message has already been merged")
    ELSE Admitted(s, m, <<>>)

\* CastStore.merge of a CastAdd: a CastRemove of the cast always wins.
CastAddMergeTxn(s, m) ==
    IF SlotKey(m) \in DOMAIN s.removes
    THEN Rejected(s, "bad_request.conflict", "message conflicts with a CastRemove")
    ELSE IF SlotKey(m) \in DOMAIN s.adds
    THEN Rejected(s, "bad_request.duplicate", "message has already been merged")
    ELSE Admitted(s, m, <<>>)

\* CastStore.merge of a CastRemove: last write wins among the CastRemoves of
\* the target, and the CastAdd of the target is deleted whatever its tsHash.
CastRemoveMergeTxn(s, m) ==
    LET existingRemove == ExistingRemove(s, m)
        existingAdd == ExistingAdd(s, m)
    IN  IF existingRemove # <<>> /\ TsHashOf(existingRemove[1]) > TsHashOf(m)
        THEN Rejected(s, "bad_request.conflict",
                      "message conflicts with a more recent CastRemove")
        ELSE IF existingRemove # <<>> /\ TsHashOf(existingRemove[1]) = TsHashOf(m)
        THEN Rejected(s, "bad_request.duplicate", "message has already been merged")
        ELSE Admitted(s, m, existingRemove \o existingAdd)
\* Faulty variant of the UserData merge: the message that arrives last wins.
UserDataMergeTxnLastWrite(s, m) ==
    IF PrimaryKey(m) \in DOMAIN s.messages
    THEN Rejected(s, "bad_request.duplicate", "message has already been merged")
    ELSE Admitted(s, m, ExistingAdd(s, m))

\* UserDataStore.merge: the store has no Remove set; a UserDataAdd is
\* compared with the live UserDataAdd of its (fid, userDataType) slot.
UserDataMergeTxn(s, m) ==
    LET existingAdd == ExistingAdd(s, m)
    IN  IF PrimaryKey(m) \in DOMAIN s.messages
        THEN Rejected(s, "bad_request.duplicate", "message has already been merged")
        ELSE IF Loses(m, existingAdd)
        THEN Rejected(s, "bad_request.conflict",
                      "message conflicts with a more recent UserDataAdd")
        ELSE Admitted(s, m, existingAdd)


MergeTxn(s, m) ==
    CASE m.type \in {"ReactionAdd", "ReactionRemove"} -> ReactionMergeTxn(s, m)
      [] m.type = "CastAdd" -> CastAddMergeTxn(s, m)
      [] m.type = "CastRemove" -> CastRemoveMergeTxn(s, m)
      [] m.type = "UserDataAdd" -> UserDataMergeTxn(s, m)

(***************************************************************************)
(* Pruning and revocation.                                                 *)
(***************************************************************************)
\* getFarcasterTime(): the current protocol time; no message is from the future.
FarcasterTime == MaxTs

\* The live messages of one fid (the primary records under the fid's prefix).
FidMessages(s, f) == { s.messages[k] : k \in { x \in DOMAIN s.messages : x[1] = f } }

\* The first message an ascending iteration over the keys returns.
Earliest(ms) == CHOOSE m \in ms : \A o \in ms : TsHashOf(m) <= TsHashOf(o)

RECURSIVE SortByTsHash(_)
SortByTsHash(ms) ==
    IF ms = {} THEN <<>> ELSE <<Earliest(ms)>> \o SortByTsHash(ms \ {Earliest(ms)})

\* Faulty variants of the walk of pruneMessages: (a) stops one message early
\* on the size limit; (b) takes the earliest Add before any Remove; (c) prunes
\* already when the fid is at the size limit; (d) keeps a message that is
\* exactly one tick too old.
RECURSIVE PruneListOneOver(_, _, _)
PruneListOneOver(ms, sizeLimit, timestampToPrune) ==
    IF ms = {} THEN <<>>
    ELSE IF Cardinality(ms) > sizeLimit + 1 \/ Earliest(ms).timestamp < timestampToPrune
    THEN <<Earliest(ms)>> \o PruneListOneOver(ms \ {Earliest(ms)}, sizeLimit, timestampToPrune)
    ELSE <<>>

EarliestAddFirst(ms) ==
    IF \E m \in ms : IsAdd(m) THEN Earliest({ m \in ms : IsAdd(m) }) ELSE Earliest(ms)

RECURSIVE PruneListAddsFirst(_, _, _)
PruneListAddsFirst(ms, sizeLimit, timestampToPrune) ==
    IF ms = {} THEN <<>>
    ELSE IF Cardinality(ms) > sizeLimit \/ Earliest(ms).timestamp < timestampToPrune
    THEN <<EarliestAddFirst(ms)>>
         \o PruneListAddsFirst(ms \ {EarliestAddFirst(ms)}, sizeLimit, timestampToPrune)
    ELSE <<>>

RECURSIVE PruneListAtLimit(_, _, _)
PruneListAtLimit(ms, sizeLimit, timestampToPrune) ==
    IF ms = {} THEN <<>>
    ELSE IF Cardinality(ms) >= sizeLimit \/ Earliest(ms).timestamp < timestampToPrune
    THEN <<Earliest(ms)>> \o PruneListAtLimit(ms \ {Earliest(ms)}, sizeLimit, timestampToPrune)
    ELSE <<>>

RECURSIVE PruneListOneTickLate(_, _, _)
PruneListOneTickLate(ms, sizeLimit, timestampToPrune) ==
    IF ms = {} THEN <<>>
    ELSE IF Cardinality(ms) > sizeLimit \/ Earliest(ms).timestamp + 1 < timestampToPrune
    THEN <<Earliest(ms)>>
         \o PruneListOneTickLate(ms \ {Earliest(ms)}, sizeLimit, timestampToPrune)
    ELSE <<>>

\* Faulty variant (e): a call deletes at most one message.
PruneListOneAtATime(ms, sizeLimit, timestampToPrune) ==
    IF ms = {} THEN <<>>
    ELSE IF Cardinality(ms) > sizeLimit \/ Earliest(ms).timestamp < timestampToPrune
    THEN <<Earliest(ms)>>
    ELSE <<>>

\* The messages pruneMessages deletes, in order: it walks the fid's messages
\* in ascending tsHash order and stops at the first one that neither exceeds
\* the size limit nor is older than the time limit.
RECURSIVE PruneList(_, _, _)
PruneList(ms, sizeLimit, timestampToPrune) ==
    IF ms = {} THEN <<>>
    ELSE IF Cardinality(ms) > sizeLimit \/ Earliest(ms).timestamp < timestampToPrune
    THEN <<Earliest(ms)>> \o PruneList(ms \ {Earliest(ms)}, sizeLimit, timestampToPrune)
    ELSE <<>>

\* Faulty variant of the scan of revokeMessagesBySigner: the fid is left out.
RevokeListAnyFid(s, f, signer) ==
    SortByTsHash({ m \in UNION { FidMessages(s, g) : g \in Fids } : m.signer = signer })

\* The messages revokeMessagesBySigner deletes, in iteration order.
RevokeList(s, f, signer) ==
    SortByTsHash({ m \in FidMessages(s, f) : m.signer = signer })

(***************************************************************************)
(* Events (StoreEventHandler).                                             *)
(***************************************************************************)
\* Faulty variant of the merge event: the superseded messages are left out.
MergeEventWithoutDeleted(id, m, deleted) ==
    [type |-> "mergeMessage", id |-> id, message |-> m, deletedMessages |-> <<>>]

\* The event of a successful merge.
MergeEvent(id, m, deleted) ==
    [type |-> "mergeMessage", id |-> id, message |-> m, deletedMessages |-> deleted]

\* Faulty variant of the numbering: the events of one call share one id.
MessageEventsOneId(type, id, ms) ==
    [i \in 1..Len(ms) |->
        [type |-> type, id |-> id + 1, message |-> ms[i], deletedMessages |-> <<>>]]

\* One event of the given type per message, numbered from id + 1.
MessageEvents(type, id, ms) ==
    [i \in 1..Len(ms) |->
        [type |-> type, id |-> id + i, message |-> ms[i], deletedMessages |-> <<>>]]

\* The messages of the other family that are offered to a store.
InvalidMessages(k) ==
    { m \in Universe \ MessagesOf(k) : m.fid = fid /\ m.timestamp = 1 /\ m.hash <= HashRadix }

\* Faulty variant of merge: the message type is not checked.
StoreMergeUntyped(k, s, m) == MergeTxn(s, m)

\* merge of store kind k: a message of another family is refused before the
\* store is read; a message of the store's family runs the merge transaction.
StoreMerge(k, s, m) ==
    IF m \in MessagesOf(k) THEN MergeTxn(s, m)
    ELSE Rejected(s, "invalid_argument", "invalid message type")

(***************************************************************************)
(* Queries.  A slot lookup reads the slot index and then the primary       *)
(* record; it throws not_found when the slot index has no entry.           *)
(***************************************************************************)
Found(m) == [result |-> "ok", value |-> m]

NotFound == [result |-> "not_found", value |-> <<>>]

\* Faulty variant of the Add lookup: falls back to the Remove index.
getAddAnyKind(s, key) ==
    IF key \in DOMAIN s.adds THEN Found(s.messages[<<key[1], s.adds[key]>>])
    ELSE IF key \in DOMAIN s.removes THEN Found(s.messages[<<key[1], s.removes[key]>>])
    ELSE NotFound

\* getReactionAdd(fid, type, target) / getCastAdd(fid, hash), by slot key.
getAdd(s, key) ==
    IF key \in DOMAIN s.adds THEN Found(s.messages[<<key[1], s.adds[key]>>]) ELSE NotFound

\* getReactionRemove(fid, type, target) / getCastRemove(fid, hash), by slot key.
getRemove(s, key) ==
    IF key \in DOMAIN s.removes THEN Found(s.messages[<<key[1], s.removes[key]>>])
    ELSE NotFound

\* A cast no message of the fixtures targets.
unknownCastId == castId + 1

\* The slot keys a lookup is called with: every fid, type and target of the
\* fixtures, and values no stored message has.
LookupKeys(k) ==
    IF k = "Reaction"
    THEN Fids \X ReactionTypes \X {castId, unknownCastId}
    ELSE Fids \X { CastAddMessage(f, ts).hash : f \in Fids, ts \in Timestamps }

(***************************************************************************)
(* Listings.  A listing walks the primary records of one fid in ascending  *)
(* key order, keeps the messages its selector accepts, and stops when the  *)
(* page is full or the records run out.  pageOptions is the record         *)
(* [pageSize, pageToken]; 0 stands for an option that is not given, and    *)
(* for the nextPageToken undefined.                                        *)
(*                                                                         *)
(* The sources fix the token of a page that the records ran out on         *)
(* (undefined) and of a page followed by further messages (defined).  For  *)
(* a page that is filled by the very last record they fix nothing, so      *)
(* the walk takes a flag: peek = TRUE looks for a further record before    *)
(* it hands out a token, peek = FALSE hands out the token as soon as the   *)
(* page is full.  Properties are stated for both.                          *)
(***************************************************************************)
NoPage == [pageSize |-> 0, pageToken |-> 0]

\* Selectors: which kinds a listing returns, and the optional reaction type.
AddsOf(type) == [adds |-> TRUE, removes |-> FALSE, type |-> type]

RemovesOf(type) == [adds |-> FALSE, removes |-> TRUE, type |-> type]

AllMessages == [adds |-> TRUE, removes |-> TRUE, type |-> "ANY"]

\* Faulty variant of the selector: the kind of the message is not looked at.
MatchesAnyKind(m, sel) == sel.type = "ANY" \/ m.reactionType = sel.type

Matches(m, sel) ==
    /\ (IsAdd(m) /\ sel.adds) \/ (IsRemove(m) /\ sel.removes)
    /\ sel.type = "ANY" \/ m.reactionType = sel.type

\* The primary key <<fid, tsHash>> an ascending iteration returns first.
Least(ks) == CHOOSE k \in ks : \A o \in ks : k[2] <= o[2]

\* Faulty variant of the walk: the token of a full page is the tsHash of the
\* record after the page.
RECURSIVE WalkTokenAhead(_, _, _, _, _, _, _)
WalkTokenAhead(s, sel, limit, left, page, last, peek) ==
    LET full == limit > 0 /\ Len(page) >= limit
    IN  IF left = {} THEN [messages |-> page, nextPageToken |-> 0]
        ELSE IF full THEN [messages |-> page, nextPageToken |-> Least(left)[2]]
        ELSE LET k == Least(left)
                 m == s.messages[k]
             IN  WalkTokenAhead(s, sel, limit, left \ {k},
                      IF Matches(m, sel) THEN Append(page, m) ELSE page, k[2], peek)

\* The walk over the primary keys that are left, with the page so far and
\* the last tsHash seen.
RECURSIVE Walk(_, _, _, _, _, _, _)
Walk(s, sel, limit, left, page, last, peek) ==
    LET full == limit > 0 /\ Len(page) >= limit
    IN  IF left = {} /\ (peek \/ ~full) THEN [messages |-> page, nextPageToken |-> 0]
        ELSE IF full THEN [messages |-> page, nextPageToken |-> last]
        ELSE LET k == Least(left)
                 m == s.messages[k]
             IN  Walk(s, sel, limit, left \ {k},
                      IF Matches(m, sel) THEN Append(page, m) ELSE page, k[2], peek)

\* get...ByFid(fid, type?, pageOptions): the page that starts after pageToken.
getMessagesByFid(s, f, sel, pageOptions, peek) ==
    Walk(s, sel, pageOptions.pageSize,
         { x \in DOMAIN s.messages : x[1] = f /\ x[2] > pageOptions.pageToken },
         <<>>, pageOptions.pageToken, peek)

\* Faulty variant of the listing by target: the target is not looked at.
getMessagesByTargetAnyTarget(s, target, sel, pageOptions, peek) ==
    Walk(s, sel, pageOptions.pageSize,
         { <<e[2], e[3]>> : e \in { x \in s.index : x[3] > pageOptions.pageToken } },
         <<>>, pageOptions.pageToken, peek)

\* getReactionsByTargetCast(castId, type?, pageOptions) / getCastsByParent:
\* the page over the secondary index entries of the target, oldest first,
\* each entry resolved to its primary record.
getMessagesByTarget(s, target, sel, pageOptions, peek) ==
    Walk(s, sel, pageOptions.pageSize,
         { <<e[2], e[3]>> : e \in { x \in s.index :
                                      x[1] = target /\ x[3] > pageOptions.pageToken } },
         <<>>, pageOptions.pageToken, peek)

\* A listing call without its page options: by fid or by target.
Query(s, q, pageOptions, peek) ==
    IF q.by = "fid" THEN getMessagesByFid(s, q.key, q.sel, pageOptions, peek)
    ELSE getMessagesByTarget(s, q.key, q.sel, pageOptions, peek)

\* The pages a caller gets who asks for pages of n messages and passes each
\* nextPageToken back until it is undefined.
RECURSIVE AllPages(_, _, _, _, _)
AllPages(s, q, n, token, peek) ==
    LET p == Query(s, q, [pageSize |-> n, pageToken |-> token], peek)
    IN  IF p.nextPageToken = 0 THEN <<p>>
        ELSE <<p>> \o AllPages(s, q, n, p.nextPageToken, peek)

(***************************************************************************)
(* State.                                                                  *)
(***************************************************************************)
VARIABLES
    kind,       \* which store this instance is: "Reaction" or "Cast"
    messages,   \* primary records: <<fid, tsHash>> -> message
    adds,       \* Add slot index: slot key -> tsHash
    removes,    \* Remove slot index: slot key -> tsHash
    index,      \* secondary index keys (by target cast / by parent)
    seq,        \* the last event id the event handler assigned
    lastOp,     \* the last call: its arguments, result and published events
    recv,       \* the messages fed to merge so far (convergence runs only)
    log,        \* the persisted events, in key order (event log runs only)
    listeners,  \* the registered listeners, in registration order (listener runs only)
    calls,      \* the listener invocations of the last call, in order
    pending,    \* merges in flight: message -> what it read and the batch it built
    done,       \* finished concurrent merges: message -> outcome
    base        \* the store when the first concurrent merge began

vars == <<kind, messages, adds, removes, index, seq, lastOp, recv, log, listeners, calls,
          pending, done, base>>

Store == [messages |-> messages, adds |-> adds, removes |-> removes, index |-> index]

SetStore(s) ==
    /\ messages' = s.messages
    /\ adds' = s.adds
    /\ removes' = s.removes
    /\ index' = s.index

NoOp ==
    [op |-> "none", arg |-> <<>>, result |-> "ok", text |-> "", id |-> 0, value |-> <<>>,
     events |-> <<>>]

Init ==
    /\ kind \in StoreKinds
    /\ messages = EmptyMap
    /\ adds = EmptyMap
    /\ removes = EmptyMap
    /\ index = {}
    /\ seq = 0
    /\ lastOp = NoOp
    /\ recv = {}
    /\ log = <<>>
    /\ listeners = <<>>
    /\ calls = <<>>
    /\ pending = EmptyMap
    /\ done = EmptyMap
    /\ base = EmptyStore

\* store.merge(m): run the merge transaction; on success commit the batch,
\* take the next event id, publish one mergeMessage event and return the id;
\* on rejection throw the HubError and change nothing.
MergeEffect(m) ==
    LET r == StoreMerge(kind, Store, m)
    IN  /\ m \in MessagesOf(kind) \cup InvalidMessages(kind)
        /\ r.result = "ok" => seq < MaxSeq
        /\ SetStore(r.store)
        /\ seq' = IF r.result = "ok" THEN seq + 1 ELSE seq
        /\ UNCHANGED kind

\* What store.merge(m) hands back to its caller, and the event it published.
MergeReturn(m) ==
    LET r == StoreMerge(kind, Store, m)
    IN  [op |-> "merge", arg |-> m, result |-> r.result, text |-> r.text,
         id |-> IF r.result = "ok" THEN seq + 1 ELSE 0, value |-> <<>>,
         events |-> IF r.result = "ok"
                    THEN << MergeEvent(seq + 1, m, r.deleted) >> ELSE <<>>]

MergeCall(m) == MergeEffect(m) /\ lastOp' = MergeReturn(m)

Merge(m) == MergeCall(m) /\ UNCHANGED <<recv, log, listeners, calls, pending, done, base>>

\* store.pruneMessages(fid) on an instance configured with the two limits.
PruneCall(f, sizeLimit, timeLimit) ==
    LET pruned == PruneList(FidMessages(Store, f), sizeLimit, FarcasterTime - timeLimit)
    IN  /\ SetStore(DeleteMany(Store, pruned))
        /\ seq' = seq + Len(pruned)
        /\ lastOp' = [op |-> "prune", arg |-> <<f, sizeLimit, timeLimit>>, result |-> "ok",
                      text |-> "", id |-> 0, value |-> pruned,
                      events |-> MessageEvents("pruneMessage", seq, pruned)]
        /\ UNCHANGED kind

PruneMessages(f, sizeLimit, timeLimit) ==
    PruneCall(f, sizeLimit, timeLimit) /\ UNCHANGED <<recv, log, listeners, calls, pending, done, base>>

\* store.revokeMessagesBySigner(fid, signer).
RevokeCall(f, signer) ==
    LET revoked == RevokeList(Store, f, signer)
    IN  /\ SetStore(DeleteMany(Store, revoked))
        /\ seq' = seq + Len(revoked)
        /\ lastOp' = [op |-> "revoke", arg |-> <<f, signer>>, result |-> "ok",
                      text |-> "", id |-> 0, value |-> revoked,
                      events |-> MessageEvents("revokeMessage", seq, revoked)]
        /\ UNCHANGED kind

RevokeMessagesBySigner(f, signer) ==
    RevokeCall(f, signer) /\ UNCHANGED <<recv, log, listeners, calls, pending, done, base>>

\* The size limits and the time limits store instances are configured with.
PruneSizeLimits == {1, MaxSeq}

PruneTimeLimits == {0, MaxTs}

Next ==
    \/ \E m \in Universe : Merge(m)
    \/ \E f \in Fids, sizeLimit \in PruneSizeLimits, timeLimit \in PruneTimeLimits :
          PruneMessages(f, sizeLimit, timeLimit)
    \/ \E f \in Fids, signer \in Signers : RevokeMessagesBySigner(f, signer)

Spec == Init /\ [][Next]_vars

(***************************************************************************)
(* Event log runs: the store life of one fid with the event handler's      *)
(* persisted log.  Every published event is appended to the log under its  *)
(* id before the call returns.                                             *)
(***************************************************************************)
\* The messages of the event log runs: those of fid with the first nonce.
LoggedMessages == { m \in Universe : m.fid = fid /\ m.hash <= HashRadix }

\* Faulty variant of the log: the events of a call replace the earlier ones.
PutEventsOverwrite == log' = lastOp'.events

\* StoreEventHandler: the events of the call are put under their ids.
PutEvents == log' = log \o lastOp'.events

LoggedMerge(m) ==
    /\ m \in LoggedMessages
    /\ m \in MessagesOf(kind)
    /\ MergeCall(m)
    /\ PutEvents
    /\ UNCHANGED <<recv, listeners, calls, pending, done, base>>

LoggedPrune(sizeLimit, timeLimit) ==
    /\ PruneCall(fid, sizeLimit, timeLimit)
    /\ PutEvents
    /\ UNCHANGED <<recv, listeners, calls, pending, done, base>>

LoggedRevoke(signer) ==
    /\ RevokeCall(fid, signer)
    /\ PutEvents
    /\ UNCHANGED <<recv, listeners, calls, pending, done, base>>

NextLog ==
    \/ \E m \in Universe : LoggedMerge(m)
    \/ \E sizeLimit \in PruneSizeLimits, timeLimit \in PruneTimeLimits :
          LoggedPrune(sizeLimit, timeLimit)
    \/ \E signer \in Signers : LoggedRevoke(signer)

SpecLog == Init /\ [][NextLog]_vars

(***************************************************************************)
(* Listener runs: the store life of one fid with listeners that are        *)
(* registered and removed between the calls.  A listener is registered     *)
(* for one category of events; the event handler invokes the listeners of  *)
(* an event's category one after the other before the call returns.        *)
(***************************************************************************)
\* The registrations of the runs: <<category, listener>>.
Registrations ==
    { <<"mergeMessage", "mergeMessageHandler">>,
      <<"mergeMessage", "mergeMessageCounter">>,
      <<"pruneMessage", "pruneMessageListener">> }

\* Faulty variant: every registered listener is invoked, whatever its category.
RECURSIVE EmitToAll(_, _)
EmitToAll(ls, event) ==
    IF ls = <<>> THEN <<>> ELSE << <<Head(ls)[2], event>> >> \o EmitToAll(Tail(ls), event)

\* The listener invocations for one event, in registration order.
RECURSIVE Emit(_, _)
Emit(ls, event) ==
    IF ls = <<>> THEN <<>>
    ELSE (IF Head(ls)[1] = event.type THEN << <<Head(ls)[2], event>> >> ELSE <<>>)
         \o Emit(Tail(ls), event)

\* The listener invocations for the events of a call, event by event.
RECURSIVE Deliver(_, _)
Deliver(ls, events) ==
    IF events = <<>> THEN <<>> ELSE Emit(ls, Head(events)) \o Deliver(ls, Tail(events))

Broadcast == calls' = Deliver(listeners, lastOp'.events) /\ UNCHANGED listeners

\* eventHandler.on(category, listener)
On(l) ==
    /\ \A i \in 1..Len(listeners) : listeners[i] # l
    /\ listeners' = Append(listeners, l)
    /\ lastOp' = [NoOp EXCEPT !.op = "on", !.arg = l]
    /\ calls' = <<>>
    /\ UNCHANGED <<kind, messages, adds, removes, index, seq, recv, log, pending, done, base>>

\* eventHandler.off(category, listener)
Off(l) ==
    /\ \E i \in 1..Len(listeners) : listeners[i] = l
    /\ listeners' = SelectSeq(listeners, LAMBDA x : x # l)
    /\ lastOp' = [NoOp EXCEPT !.op = "off", !.arg = l]
    /\ calls' = <<>>
    /\ UNCHANGED <<kind, messages, adds, removes, index, seq, recv, log, pending, done, base>>

ListenedMerge(m) ==
    /\ m \in LoggedMessages
    /\ m \in MessagesOf(kind)
    /\ MergeCall(m)
    /\ Broadcast
    /\ UNCHANGED <<recv, log, pending, done, base>>

ListenedPrune(sizeLimit, timeLimit) ==
    /\ PruneCall(fid, sizeLimit, timeLimit)
    /\ Broadcast
    /\ UNCHANGED <<recv, log, pending, done, base>>

ListenedRevoke(signer) ==
    /\ RevokeCall(fid, signer)
    /\ Broadcast
    /\ UNCHANGED <<recv, log, pending, done, base>>

NextListen ==
    \/ \E l \in Registrations : On(l)
    \/ \E l \in Registrations : Off(l)
    \/ \E m \in Universe : ListenedMerge(m)
    \/ \E sizeLimit \in PruneSizeLimits, timeLimit \in PruneTimeLimits :
          ListenedPrune(sizeLimit, timeLimit)
    \/ \E signer \in Signers : ListenedRevoke(signer)

SpecListen == Init /\ [][NextListen]_vars

(***************************************************************************)
(* Runs with a listener that throws.  The event handler invokes the        *)
(* listeners inside the call that produced the event and does not catch    *)
(* what they throw: the invocation of the later listeners, the rest of a   *)
(* prune or revoke loop and the normal return of the call are skipped.     *)
(* The batch that produced the event is committed before the event is      *)
(* published.                                                              *)
(***************************************************************************)
ThrowRegistrations ==
    { <<"mergeMessage", "mergeMessageHandler">>,
      <<"mergeMessage", "throwingListener">>,
      <<"pruneMessage", "throwingListener">>,
      <<"revokeMessage", "throwingListener">> }

Throws(l) == l[2] = "throwingListener"

\* Variant of the event handler that catches what a listener throws.
EmitCatching(ls, event) == [calls |-> Emit(ls, event), error |-> ""]

\* The listener invocations for one event, up to the first listener that
\* throws, and the exception that leaves the event handler.
RECURSIVE EmitThrowing(_, _)
EmitThrowing(ls, event) ==
    IF ls = <<>> THEN [calls |-> <<>>, error |-> ""]
    ELSE IF Head(ls)[1] # event.type THEN EmitThrowing(Tail(ls), event)
    ELSE IF Throws(Head(ls))
    THEN [calls |-> << <<Head(ls)[2], event>> >>, error |-> "listener threw"]
    ELSE LET rest == EmitThrowing(Tail(ls), event)
         IN  [calls |-> << <<Head(ls)[2], event>> >> \o rest.calls, error |-> rest.error]

\* The events of a call are published one by one, each after its own batch;
\* n is the number of events that were published when the call ended.
RECURSIVE Publish(_, _)
Publish(ls, events) ==
    IF events = <<>> THEN [calls |-> <<>>, error |-> "", n |-> 0]
    ELSE LET e == EmitThrowing(ls, Head(events))
             rest == Publish(ls, Tail(events))
         IN  IF e.error # "" THEN [calls |-> e.calls, error |-> e.error, n |-> 1]
             ELSE [calls |-> e.calls \o rest.calls, error |-> rest.error, n |-> 1 + rest.n]

\* The result of a call whose events were published with outcome p.
Propagate(result, p) == IF p.error # "" THEN p.error ELSE result

\* A prune or revoke loop over the messages of list with listeners: the
\* messages up to the one whose listener threw are deleted and published.
LoopWithListeners(op, arg, list, type) ==
    LET events == MessageEvents(type, seq, list)
        p == Publish(listeners, events)
        deleted == SubSeq(list, 1, p.n)
    IN  /\ SetStore(DeleteMany(Store, deleted))
        /\ seq' = seq + p.n
        /\ lastOp' = [op |-> op, arg |-> arg, result |-> Propagate("ok", p), text |-> "",
                      id |-> 0, value |-> deleted, events |-> SubSeq(events, 1, p.n)]
        /\ calls' = p.calls
        /\ UNCHANGED <<kind, listeners, recv, log, pending, done, base>>

ThrowingMerge(m) ==
    /\ m \in LoggedMessages
    /\ m \in MessagesOf(kind)
    /\ MergeEffect(m)
    /\ LET p == Publish(listeners, MergeReturn(m).events)
       IN  /\ lastOp' = [MergeReturn(m) EXCEPT !.result = Propagate(@, p)]
           /\ calls' = p.calls
    /\ UNCHANGED <<listeners, recv, log, pending, done, base>>

ThrowingPrune(sizeLimit, timeLimit) ==
    LoopWithListeners("prune", <<fid, sizeLimit, timeLimit>>,
                      PruneList(FidMessages(Store, fid), sizeLimit, FarcasterTime - timeLimit),
                      "pruneMessage")

ThrowingRevoke(signer) ==
    LoopWithListeners("revoke", <<fid, signer>>, RevokeList(Store, fid, signer),
                      "revokeMessage")

NextThrow ==
    \/ \E l \in ThrowRegistrations : On(l)
    \/ \E m \in Universe : ThrowingMerge(m)
    \/ \E sizeLimit \in PruneSizeLimits, timeLimit \in PruneTimeLimits :
          ThrowingPrune(sizeLimit, timeLimit)
    \/ \E signer \in Signers : ThrowingRevoke(signer)

SpecThrow == Init /\ [][NextThrow]_vars

(***************************************************************************)
(* Runs with substrate failures.  Every atomic batch can fail: the one     *)
(* batch of a merge, and each of the batches of a prune or revoke loop,    *)
(* which deletes one message per batch.  failAt = 0 stands for a call      *)
(* without failure, failAt = k for a call whose k-th batch fails.          *)
(***************************************************************************)
\* Faulty variant of the substrate: of a failed batch the deletions are
\* applied and the insertions are not.
FailedBatchPartial(s, deletes, puts) == DeleteMany(s, deletes)

\* The store after a batch that failed: the substrate applies none of it.
FailedBatch(s, deletes, puts) == s

\* Faulty variant of the loop: after a failed batch it goes on with the
\* next message.
RECURSIVE RunLoopContinues(_, _, _)
RunLoopContinues(s, list, failAt) ==
    IF list = <<>> THEN [store |-> s, deleted |-> <<>>, error |-> ""]
    ELSE IF failAt = 1
    THEN [RunLoopContinues(FailedBatch(s, <<Head(list)>>, <<>>), Tail(list), 0)
            EXCEPT !.error = "unavailable"]
    ELSE LET rest == RunLoopContinues(DeleteMessage(s, Head(list)), Tail(list),
                                      IF failAt = 0 THEN 0 ELSE failAt - 1)
         IN  [store |-> rest.store, deleted |-> <<Head(list)>> \o rest.deleted,
              error |-> rest.error]

\* The loop of pruneMessages and revokeMessagesBySigner over the messages
\* to delete: one batch per message; a failed batch ends the loop, and the
\* messages deleted so far are handed back with the error.
RECURSIVE RunLoop(_, _, _)
RunLoop(s, list, failAt) ==
    IF list = <<>> THEN [store |-> s, deleted |-> <<>>, error |-> ""]
    ELSE IF failAt = 1
    THEN [store |-> FailedBatch(s, <<Head(list)>>, <<>>), deleted |-> <<>>,
          error |-> "unavailable"]
    ELSE LET rest == RunLoop(DeleteMessage(s, Head(list)), Tail(list),
                             IF failAt = 0 THEN 0 ELSE failAt - 1)
         IN  [store |-> rest.store, deleted |-> <<Head(list)>> \o rest.deleted,
              error |-> rest.error]

FaultyLoop(op, arg, list, type, failAt) ==
    LET l == RunLoop(Store, list, failAt)
    IN  /\ failAt <= Len(list)
        /\ SetStore(l.store)
        /\ seq' = seq + Len(l.deleted)
        /\ lastOp' = [op |-> op, arg |-> arg,
                      result |-> IF l.error = "" THEN "ok" ELSE l.error, text |-> "",
                      id |-> 0, value |-> l.deleted,
                      events |-> MessageEvents(type, seq, l.deleted)]
        /\ UNCHANGED <<kind, recv, log, listeners, calls, pending, done, base>>

FaultyMerge(m, failAt) ==
    LET r == StoreMerge(kind, Store, m)
        fails == failAt = 1
    IN  /\ m \in LoggedMessages
        /\ m \in MessagesOf(kind)
        /\ failAt \in {0, 1}
        /\ fails => r.result = "ok"
        /\ IF fails
           THEN /\ SetStore(FailedBatch(Store, r.deleted, <<m>>))
                /\ lastOp' = [op |-> "merge", arg |-> m, result |-> "unavailable",
                              text |-> "", id |-> 0, value |-> <<>>, events |-> <<>>]
                /\ UNCHANGED <<kind, seq>>
           ELSE MergeCall(m)
        /\ UNCHANGED <<recv, log, listeners, calls, pending, done, base>>

FaultyPrune(sizeLimit, timeLimit, failAt) ==
    FaultyLoop("prune", <<fid, sizeLimit, timeLimit>>,
               PruneList(FidMessages(Store, fid), sizeLimit, FarcasterTime - timeLimit),
               "pruneMessage", failAt)

FaultyRevoke(signer, failAt) ==
    FaultyLoop("revoke", <<fid, signer>>, RevokeList(Store, fid, signer),
               "revokeMessage", failAt)

NextFault ==
    \/ \E m \in Universe, failAt \in 0..1 : FaultyMerge(m, failAt)
    \/ \E sizeLimit \in PruneSizeLimits, timeLimit \in PruneTimeLimits,
          failAt \in 0..MaxSeq : FaultyPrune(sizeLimit, timeLimit, failAt)
    \/ \E signer \in Signers, failAt \in 0..MaxSeq : FaultyRevoke(signer, failAt)

SpecFault == Init /\ [][NextFault]_vars

(***************************************************************************)
(* Convergence runs: the messages of one fid are fed to merge one at a     *)
(* time, in any order, with no prune or revoke in between.                 *)
(***************************************************************************)
Feed(m) ==
    /\ m \in MessagesOf(kind)
    /\ m.fid = fid
    /\ m \notin recv
    /\ Cardinality(recv) < MaxSeq
    /\ MergeCall(m)
    /\ recv' = recv \cup {m}
    /\ UNCHANGED <<log, listeners, calls, pending, done, base>>

NextConv == \E m \in Universe : Feed(m)

SpecConv == Init /\ [][NextConv]_vars

\* The store that results from merging a list of messages in list order.
RECURSIVE MergeAll(_, _)
MergeAll(s, ms) ==
    IF ms = <<>> THEN s ELSE MergeAll(MergeTxn(s, Head(ms)).store, Tail(ms))

(***************************************************************************)
(* Concurrent runs: merge is an async call, so two calls can interleave.   *)
(* A call first reads the store and builds its batch (Begin), and later    *)
(* commits the batch in one step (Commit).  Up to two calls are in flight  *)
(* over a store seeded with at most one message.                           *)
(***************************************************************************)
ConcMessages == { m \in Universe : m.hash <= HashRadix }

\* Faulty variant of the commit: the call writes back the whole store it
\* computed from what it read.
ApplyBatchSnapshot(s, m, r) == r.store

\* Variant of the commit that reads the slot again: it deletes the messages
\* that hold the slot at commit time instead of those the call read.
ApplyBatchReread(s, m, r) ==
    PutMessage(DeleteMany(s, ExistingRemove(s, m) \o ExistingAdd(s, m)), m)

\* The commit of a winning merge: the deletes and puts of its batch, applied
\* to the store as it is now.
ApplyBatch(s, m, r) == PutMessage(DeleteMany(s, r.deleted), m)

Seed(m) ==
    /\ m \in ConcMessages
    /\ m \in MessagesOf(kind)
    /\ messages = EmptyMap
    /\ pending = EmptyMap
    /\ done = EmptyMap
    /\ MergeCall(m)
    /\ UNCHANGED <<recv, log, listeners, calls, pending, done, base>>

Begin(m) ==
    /\ m \in ConcMessages
    /\ m \in MessagesOf(kind)
    /\ m \notin (DOMAIN pending) \cup (DOMAIN done)
    /\ Cardinality((DOMAIN pending) \cup (DOMAIN done)) < 2
    /\ pending' = Put(pending, m, [seen |-> Store, txn |-> MergeTxn(Store, m)])
    /\ base' = IF pending = EmptyMap /\ done = EmptyMap THEN Store ELSE base
    /\ UNCHANGED <<kind, messages, adds, removes, index, seq, lastOp,
                   recv, log, listeners, calls, done>>

Commit(m) ==
    /\ m \in DOMAIN pending
    /\ LET r == pending[m].txn
       IN  /\ r.result = "ok" => seq < MaxSeq
           /\ SetStore(IF r.result = "ok" THEN ApplyBatch(Store, m, r) ELSE Store)
           /\ seq' = IF r.result = "ok" THEN seq + 1 ELSE seq
           /\ lastOp' = [op |-> "merge", arg |-> m, result |-> r.result, text |-> r.text,
                         id |-> IF r.result = "ok" THEN seq + 1 ELSE 0, value |-> <<>>,
                         events |-> IF r.result = "ok"
                                    THEN << MergeEvent(seq + 1, m, r.deleted) >> ELSE <<>>]
           /\ done' = Put(done, m, [result |-> r.result, text |-> r.text,
                                    deleted |-> r.deleted,
                                    stale |-> Store # pending[m].seen])
    /\ pending' = Del(pending, m)
    /\ UNCHANGED <<kind, recv, log, listeners, calls, base>>

NextConc ==
    \/ \E m \in Universe : Seed(m)
    \/ \E m \in Universe : Begin(m)
    \/ \E m \in Universe : Commit(m)

SpecConc == Init /\ [][NextConc]_vars

(***************************************************************************)
(* UserData runs: a UserData store, which has no Remove set, is given      *)
(* UserDataAdd messages in any order.                                      *)
(***************************************************************************)
InitUserData ==
    /\ kind = "UserData"
    /\ messages = EmptyMap
    /\ adds = EmptyMap
    /\ removes = EmptyMap
    /\ index = {}
    /\ seq = 0
    /\ lastOp = NoOp
    /\ recv = {}
    /\ log = <<>>
    /\ listeners = <<>>
    /\ calls = <<>>
    /\ pending = EmptyMap
    /\ done = EmptyMap
    /\ base = EmptyStore

NextUserData == \E m \in UserDataMessages : Merge(m)

SpecUserData == InitUserData /\ [][NextUserData]_vars

(***************************************************************************)
(* Observations used by the properties.                                    *)
(***************************************************************************)
\* The live messages: the values of the primary records.
Live == { messages[k] : k \in DOMAIN messages }

\* The live messages in the conflict slot of m.
SlotLive(m) == { e \in Live : SlotKey(e) = SlotKey(m) }

\* getMessage(db, fid, postfix, tsHash) finds the message.
Exists(m) == PrimaryKey(m) \in DOMAIN messages /\ messages[PrimaryKey(m)] = m

\* The slot lookup of the m's own kind (getReactionAdd, getCastRemove, ...)
\* returns m.
Wins(m) ==
    /\ Exists(m)
    /\ IF IsAdd(m)
       THEN SlotKey(m) \in DOMAIN adds /\ adds[SlotKey(m)] = TsHashOf(m)
       ELSE SlotKey(m) \in DOMAIN removes /\ removes[SlotKey(m)] = TsHashOf(m)

\* No key of the store refers to m.
Absent(m) ==
    /\ PrimaryKey(m) \notin DOMAIN messages
    /\ SlotKey(m) \in DOMAIN adds => adds[SlotKey(m)] # TsHashOf(m)
    /\ SlotKey(m) \in DOMAIN removes => removes[SlotKey(m)] # TsHashOf(m)
    /\ \A k \in index : k[3] # TsHashOf(m)

\* The step is a call of merge.
IsMergeStep == lastOp'.op = "merge"

MergeConflict == IsMergeStep /\ lastOp'.result = "bad_request.conflict"

\* The state after the last call shows a merge that superseded message e.
Superseded(e) ==
    /\ lastOp.op = "merge"
    /\ lastOp.result = "ok"
    /\ lastOp.events[1].deletedMessages = <<e>>

(***************************************************************************)
(* C1: convergence.  Whatever the order in which a set of messages was     *)
(* merged into an initially empty store (no prune, no revoke), the store   *)
(* equals the one obtained by merging the same set in ascending tsHash     *)
(* order: so any two orders end with the same live message in every slot,  *)
(* and with the same indexes.                                              *)
(***************************************************************************)
Convergence == Store = MergeAll(EmptyStore, SortByTsHash(recv))

\* Three messages of one slot were merged, and the last one arrived too late:
\* the order of arrival differed from the order of precedence.
ConvergenceWitness ==
    /\ Cardinality(recv) = 3
    /\ \A a, b \in recv : SlotKey(a) = SlotKey(b)
    /\ \E a, b \in recv : IsAdd(a) /\ IsRemove(b)
    /\ lastOp.op = "merge"
    /\ lastOp.result = "bad_request.conflict"
    /\ Cardinality(Live) = 1

(***************************************************************************)
(* The conflict rule, observed on the steps of merge.  In each property m  *)
(* is the merged message and e a message that was live in the slot of m    *)
(* when merge was called.                                                  *)
(***************************************************************************)
\* m was admitted, took e's place and is the slot's winner.
Supersedes(m, e) ==
    /\ lastOp'.result = "ok"
    /\ Wins(m)'
    /\ Absent(e)'

\* m was rejected as a conflict and e is still the slot's winner.
RejectedBy(m, e) ==
    /\ lastOp'.result = "bad_request.conflict"
    /\ Wins(e)'
    /\ Absent(m)'

\* The timestamp rule for the step that merges m over the live e.
TimestampRule(m, e) ==
    /\ m.timestamp > e.timestamp => Supersedes(m, e)
    /\ m.timestamp < e.timestamp => RejectedBy(m, e)

\* C2 as the specification states it: in every store, whatever the kinds of
\* the two messages, the one with the higher timestamp wins.
TimestampRuleEveryStore ==
    [][IsMergeStep => \A m \in {lastOp'.arg} :
        \A e \in SlotLive(m) : TimestampRule(m, e)]_vars

\* C2: in the Reaction store, and between two CastRemoves in the Cast store,
\* the message with the higher timestamp wins whatever the kinds: a later
\* message supersedes the live one, an earlier one is rejected as a conflict.
\* (Between a CastAdd and a CastRemove the timestamps play no part: see C3.)
TimestampRuleHolds ==
    [][IsMergeStep => \A m \in {lastOp'.arg} :
        \A e \in SlotLive(m) :
            (kind = "Reaction" \/ (IsRemove(e) /\ IsRemove(m)))
                => TimestampRule(m, e)]_vars

\* A later ReactionAdd has superseded an earlier ReactionRemove.
TimestampRuleWitness ==
    \E e \in Universe :
        /\ Superseded(e)
        /\ e.type = "ReactionRemove"
        /\ lastOp.arg.type = "ReactionAdd"
        /\ lastOp.arg.timestamp > e.timestamp
        /\ lastOp.arg.hash < e.hash

\* C3: in the Cast store a CastRemove that targets the hash of a CastAdd
\* beats that CastAdd whatever the timestamps and hashes: merging the
\* CastRemove deletes the live CastAdd, and merging the CastAdd while the
\* CastRemove is live is rejected with "message conflicts with a CastRemove".
CastRemoveWins ==
    [][(IsMergeStep /\ kind = "Cast") => \A m \in {lastOp'.arg} :
        \A e \in SlotLive(m) :
            /\ (IsRemove(m) /\ IsAdd(e)) => Supersedes(m, e)
            /\ (IsAdd(m) /\ IsRemove(e)) =>
                   /\ RejectedBy(m, e)
                   /\ lastOp'.text = "message conflicts with a CastRemove"]_vars

\* A CastRemove has deleted a CastAdd with a later timestamp and a smaller
\* hash than its own.
CastRemoveWinsWitness ==
    \E e \in Universe :
        /\ Superseded(e)
        /\ e.type = "CastAdd"
        /\ lastOp.arg.type = "CastRemove"
        /\ lastOp.arg.timestamp < e.timestamp
        /\ lastOp.arg.hash > e.hash

\* C4: an Add and a Remove of one slot with equal timestamps: the Remove
\* wins, whichever is merged first and whichever has the larger hash.
RemoveWinsTies ==
    [][IsMergeStep => \A m \in {lastOp'.arg} :
        \A e \in SlotLive(m) :
            e.timestamp = m.timestamp =>
                /\ (IsRemove(m) /\ IsAdd(e)) => Supersedes(m, e)
                /\ (IsAdd(m) /\ IsRemove(e)) => RejectedBy(m, e)]_vars

\* A ReactionRemove has superseded a ReactionAdd of the same timestamp and
\* of a larger hash.
RemoveWinsTiesWitness ==
    \E e \in Universe :
        /\ Superseded(e)
        /\ e.type = "ReactionAdd"
        /\ lastOp.arg.type = "ReactionRemove"
        /\ lastOp.arg.timestamp = e.timestamp
        /\ lastOp.arg.hash < e.hash

\* C5: two messages of one kind and one slot with equal timestamps: the one
\* with the larger hash wins, whichever is merged first.
HashBreaksTies ==
    [][IsMergeStep => \A m \in {lastOp'.arg} :
        \A e \in SlotLive(m) :
            (e.timestamp = m.timestamp /\ e.type = m.type) =>
                /\ m.hash > e.hash => Supersedes(m, e)
                /\ m.hash < e.hash => RejectedBy(m, e)]_vars

\* A message was rejected because the live message of its kind and timestamp
\* has the larger hash.
HashBreaksTiesWitness ==
    /\ lastOp.op = "merge"
    /\ lastOp.result = "bad_request.conflict"
    /\ \E e \in SlotLive(lastOp.arg) :
          /\ e.type = lastOp.arg.type
          /\ e.timestamp = lastOp.arg.timestamp
          /\ e.hash > lastOp.arg.hash

(***************************************************************************)
(* Rejections and events.                                                  *)
(***************************************************************************)
\* The step changes nothing in the store and emits nothing.
NothingHappens ==
    /\ Store' = Store
    /\ seq' = seq
    /\ lastOp'.events = <<>>

\* C6: merging a message that is byte-identical to a live message is
\* rejected with bad_request.duplicate, changes nothing and emits no event.
DuplicateRejected ==
    [][IsMergeStep => \A m \in {lastOp'.arg} : Exists(m) =>
        /\ lastOp'.result = "bad_request.duplicate"
        /\ lastOp'.text = "message has already been merged"
        /\ NothingHappens]_vars

\* A live message was merged a second time, after another merge in between.
DuplicateRejectedWitness ==
    /\ lastOp.op = "merge"
    /\ lastOp.result = "bad_request.duplicate"
    /\ Exists(lastOp.arg)
    /\ Cardinality(Live) > 1

\* C7: a merge rejected with bad_request.conflict changes nothing: the
\* losing message is not stored under any key, and the message that was the
\* slot's winner before the call still is.
ConflictLeavesStore ==
    [][MergeConflict => \A m \in {lastOp'.arg} :
        /\ NothingHappens
        /\ Absent(m)'
        /\ SlotLive(m) # {}
        /\ \A e \in SlotLive(m) : Wins(e)']_vars

\* A ReactionAdd has lost against the live ReactionAdd of its slot.
ConflictLeavesStoreWitness ==
    /\ lastOp.op = "merge"
    /\ lastOp.result = "bad_request.conflict"
    /\ lastOp.text = "message conflicts with a more recent ReactionAdd"
    /\ \E e \in SlotLive(lastOp.arg) : Wins(e) /\ e.timestamp > lastOp.arg.timestamp

\* The elements of a list.
Range(list) == { list[i] : i \in 1..Len(list) }

\* C8: a successful merge emits exactly one mergeMessage event: its message
\* is the admitted message and its deletedMessages are exactly the messages
\* the merge deleted (none when the slot was empty); a rejected merge emits
\* no event.
OneMergeEvent ==
    [][IsMergeStep =>
        IF lastOp'.result = "ok"
        THEN /\ Len(lastOp'.events) = 1
             /\ lastOp'.events[1].type = "mergeMessage"
             /\ lastOp'.events[1].message = lastOp'.arg
             /\ lastOp'.events[1].id = seq'
             /\ seq' = seq + 1
             /\ Range(lastOp'.events[1].deletedMessages) = Live \ Live'
             /\ Len(lastOp'.events[1].deletedMessages) = Cardinality(Live \ Live')
             /\ Live' \ Live = {lastOp'.arg}
        ELSE lastOp'.events = <<>> /\ seq' = seq]_vars

\* A merge has emitted its event with a superseded message in deletedMessages,
\* after a merge into an empty slot.
OneMergeEventWitness ==
    /\ seq > 1
    /\ lastOp.op = "merge"
    /\ Len(lastOp.events) = 1
    /\ Len(lastOp.events[1].deletedMessages) = 1
    /\ Cardinality(Live) > 1

(***************************************************************************)
(* Invariants of the store under merge, prune and revoke.                  *)
(***************************************************************************)
\* C9: at most one Add is live for each fid and slot.
OneAddPerSlot ==
    \A a, b \in Live :
        (IsAdd(a) /\ IsAdd(b) /\ SlotKey(a) = SlotKey(b)) => a = b

\* An Add has superseded another Add of its slot, and is the only one live.
OneAddPerSlotWitness ==
    \E e \in Universe :
        /\ Superseded(e)
        /\ IsAdd(e)
        /\ IsAdd(lastOp.arg)
        /\ Wins(lastOp.arg)
        /\ Absent(e)

\* C10: while a Remove is live for a slot, no Add is live for it: the Add
\* lookup of the slot finds nothing and no primary record holds such an Add.
NoAddUnderRemove ==
    /\ \A r, a \in Live : (IsRemove(r) /\ IsAdd(a)) => SlotKey(a) # SlotKey(r)
    /\ \A r \in Live : IsRemove(r) => SlotKey(r) \notin DOMAIN adds

\* A Remove is live in a slot where an Add was live before it, next to the
\* live Add of another slot.
NoAddUnderRemoveWitness ==
    \E e \in Universe :
        /\ Superseded(e)
        /\ IsAdd(e)
        /\ IsRemove(lastOp.arg)
        /\ Wins(lastOp.arg)
        /\ \E a \in Live : IsAdd(a)

WithinLimits(ms, sizeLimit, timeLimit) ==
    /\ Cardinality(ms) <= sizeLimit
    /\ \A m \in ms : FarcasterTime - m.timestamp <= timeLimit

\* C12: right after pruneMessages(fid) has returned, the fid has at most
\* pruneSizeLimit live messages and none of them is older than
\* pruneTimeLimit.
PruningBound ==
    lastOp.op = "prune" =>
        /\ lastOp.result = "ok"
        /\ WithinLimits(FidMessages(Store, lastOp.arg[1]), lastOp.arg[2], lastOp.arg[3])

\* A prune under a size limit of 1 has removed the earlier of two young
\* messages of the fid and kept the other.
PruningBoundWitness ==
    /\ lastOp.op = "prune"
    /\ lastOp.arg[2] = 1
    /\ Len(lastOp.value) = 1
    /\ lastOp.value[1].timestamp = FarcasterTime
    /\ Cardinality(FidMessages(Store, lastOp.arg[1])) = 1

\* The messages of a list from position n on.
Suffix(list, n) == { list[i] : i \in n..Len(list) }

\* The step is a call of pruneMessages.
IsPruneStep == lastOp'.op = "prune"

\* C13: pruneMessages(fid) removes a prefix of the fid's live messages in
\* ascending tsHash order, Adds and Removes alike: the shortest prefix after
\* which both limits hold.  The returned list and the pruneMessage events
\* are that prefix in order, and every other message stays live.
PrunesShortestPrefix ==
    [][IsPruneStep =>
        \A a \in {lastOp'.arg} : \A pruned \in {lastOp'.value} :
            LET sorted == SortByTsHash(FidMessages(Store, a[1]))
            IN  /\ Len(pruned) <= Len(sorted)
                /\ pruned = SubSeq(sorted, 1, Len(pruned))
                /\ WithinLimits(Suffix(sorted, Len(pruned) + 1), a[2], a[3])
                /\ \A n \in 1..Len(pruned) : ~WithinLimits(Suffix(sorted, n), a[2], a[3])
                /\ Len(lastOp'.events) = Len(pruned)
                /\ \A i \in 1..Len(pruned) :
                      /\ lastOp'.events[i].type = "pruneMessage"
                      /\ lastOp'.events[i].message = pruned[i]
                /\ Live' = Live \ Range(pruned)]_vars

\* A prune under a size limit of 1 has removed a Remove and kept a later Add
\* of the fid.
PrunesShortestPrefixWitness ==
    /\ lastOp.op = "prune"
    /\ lastOp.arg[2] = 1
    /\ Len(lastOp.value) = 1
    /\ IsRemove(lastOp.value[1])
    /\ \E m \in FidMessages(Store, lastOp.arg[1]) :
          IsAdd(m) /\ TsHashOf(m) > TsHashOf(lastOp.value[1])

\* C14: pruneMessages(fid) is a no-op when both limits hold already (also
\* when the fid has no messages): it returns an empty list, emits no event
\* and leaves the store as it is.
PruneNoOp ==
    [][IsPruneStep =>
        \A a \in {lastOp'.arg} :
            WithinLimits(FidMessages(Store, a[1]), a[2], a[3]) =>
                /\ lastOp'.result = "ok"
                /\ lastOp'.value = <<>>
                /\ NothingHappens]_vars

\* A prune has returned an empty list for a fid that is exactly at its size
\* limit, after an earlier mutation.
PruneNoOpWitness ==
    /\ lastOp.op = "prune"
    /\ lastOp.value = <<>>
    /\ lastOp.arg[2] = 1
    /\ Cardinality(FidMessages(Store, lastOp.arg[1])) = 1
    /\ seq > 1

\* The live messages of a fid that are older than the time limit.
TooOld(f, timeLimit) ==
    { m \in FidMessages(Store, f) : FarcasterTime - m.timestamp > timeLimit }

\* C15: on a store instance with a time limit and no size limit that binds,
\* pruneMessages(fid) prunes exactly the live messages of the fid that are
\* older than the limit, Adds and Removes alike, and keeps the others.
PrunesByAge ==
    [][IsPruneStep =>
        \A a \in {lastOp'.arg} :
            a[2] >= Cardinality(FidMessages(Store, a[1])) =>
                /\ Range(lastOp'.value) = TooOld(a[1], a[3])
                /\ Live' = Live \ TooOld(a[1], a[3])]_vars

\* A prune by age has removed an old Remove and kept a message of the
\* current time.
PrunesByAgeWitness ==
    /\ lastOp.op = "prune"
    /\ lastOp.arg[2] = MaxSeq
    /\ Len(lastOp.value) = 1
    /\ IsRemove(lastOp.value[1])
    /\ lastOp.value[1].timestamp < FarcasterTime - lastOp.arg[3]
    /\ \E m \in FidMessages(Store, lastOp.arg[1]) : m.timestamp = FarcasterTime

(***************************************************************************)
(* The event handler.                                                      *)
(***************************************************************************)
\* The last n events of the log.
LastEvents(n) == SubSeq(log, Len(log) - n + 1, Len(log))

\* C16: every accepted mutation (a merge, each pruned message, each revoked
\* message) has an event with a positive sequence number that is greater
\* than the number of every earlier one, and a successful merge returns the
\* number of its event.
SequenceNumbers ==
    /\ \A i \in 1..Len(log) : log[i].id > 0
    /\ \A i, j \in 1..Len(log) : i < j => log[i].id < log[j].id
    /\ Len(lastOp.events) <= Len(log)
    /\ LastEvents(Len(lastOp.events)) = lastOp.events
    /\ (lastOp.op = "merge" /\ lastOp.result = "ok") =>
          /\ Len(lastOp.events) = 1
          /\ lastOp.id = log[Len(log)].id
          /\ log[Len(log)].message = lastOp.arg
    /\ lastOp.op \in {"prune", "revoke"} =>
          /\ Len(lastOp.events) = Len(lastOp.value)
          /\ \A i \in 1..Len(lastOp.value) : lastOp.events[i].message = lastOp.value[i]

\* The events of two merges and of a prune of two messages are in the log.
SequenceNumbersWitness ==
    /\ Len(log) = 4
    /\ log[1].type = "mergeMessage"
    /\ log[2].type = "mergeMessage"
    /\ log[3].type = "pruneMessage"
    /\ log[4].type = "pruneMessage"
    /\ lastOp.op = "prune"

EventPos(k) == CHOOSE n \in 1..Len(lastOp.events) : lastOp.events[n] = calls[k][2]

ListenerPos(k) ==
    CHOOSE i \in 1..Len(listeners) : listeners[i] = <<calls[k][2].type, calls[k][1]>>

\* C18: when a mutating call returns, each of its events has been handed to
\* every listener that is registered for the event's category, in
\* registration order, and to no other listener: not to listeners of other
\* categories, not to listeners removed with off.
ListenerDelivery ==
    lastOp.op \in {"merge", "prune", "revoke"} =>
        /\ \A k \in 1..Len(calls) :
              /\ \E n \in 1..Len(lastOp.events) : lastOp.events[n] = calls[k][2]
              /\ \E i \in 1..Len(listeners) :
                    listeners[i] = <<calls[k][2].type, calls[k][1]>>
        /\ \A n \in 1..Len(lastOp.events) : \A i \in 1..Len(listeners) :
              listeners[i][1] = lastOp.events[n].type =>
                  \E k \in 1..Len(calls) : calls[k] = <<listeners[i][2], lastOp.events[n]>>
        /\ Len(calls) = Cardinality({ p \in (1..Len(lastOp.events)) \X (1..Len(listeners)) :
                                         listeners[p[2]][1] = lastOp.events[p[1]].type })
        /\ \A k1, k2 \in 1..Len(calls) :
              k1 < k2 =>
                  \/ EventPos(k1) < EventPos(k2)
                  \/ EventPos(k1) = EventPos(k2) /\ ListenerPos(k1) < ListenerPos(k2)

\* A merge has returned after its event went to the two mergeMessage
\* listeners, the later registered one last, and not to the pruneMessage
\* listener registered between them.
ListenerDeliveryWitness ==
    /\ lastOp.op = "merge"
    /\ lastOp.result = "ok"
    /\ listeners = << <<"mergeMessage", "mergeMessageCounter">>,
                      <<"pruneMessage", "pruneMessageListener">>,
                      <<"mergeMessage", "mergeMessageHandler">> >>
    /\ Len(calls) = 2
    /\ calls[1][1] = "mergeMessageCounter"
    /\ calls[2][1] = "mergeMessageHandler"

\* The step is a call of revokeMessagesBySigner.
IsRevokeStep == lastOp'.op = "revoke"

\* The live messages of a fid that were signed by a signer.
SignedBy(f, signer) == { m \in FidMessages(Store, f) : m.signer = signer }

\* C19: revokeMessagesBySigner(fid, signer) deletes every live message of
\* the fid that the signer signed, with its index entries, emits one
\* revokeMessage event for each, returns the deleted messages, and leaves
\* live the messages of the fid signed by other keys and those of other
\* fids.
RevokeDeletesSigned ==
    [][IsRevokeStep =>
        \A a \in {lastOp'.arg} : \A revoked \in {lastOp'.value} :
            /\ lastOp'.result = "ok"
            /\ Range(revoked) = SignedBy(a[1], a[2])
            /\ Len(revoked) = Cardinality(SignedBy(a[1], a[2]))
            /\ \A m \in SignedBy(a[1], a[2]) : Absent(m)'
            /\ \A m \in Live \ SignedBy(a[1], a[2]) : Wins(m)'
            /\ Live' = Live \ SignedBy(a[1], a[2])
            /\ Len(lastOp'.events) = Len(revoked)
            /\ \A i \in 1..Len(revoked) :
                  /\ lastOp'.events[i].type = "revokeMessage"
                  /\ lastOp'.events[i].message = revoked[i]]_vars

\* A revoke has deleted one message of the fid and kept a message of the
\* fid signed by another key and a message of the other fid signed by the
\* revoked key.
RevokeDeletesSignedWitness ==
    /\ lastOp.op = "revoke"
    /\ Len(lastOp.value) = 1
    /\ \E m \in Live : m.fid = lastOp.arg[1] /\ m.signer # lastOp.arg[2]
    /\ \E m \in Live : m.fid # lastOp.arg[1] /\ m.signer = lastOp.arg[2]

\* The outcome merge(m) has when it runs alone on store s.
Alone(s, m) ==
    LET r == MergeTxn(s, m)
    IN  [result |-> r.result, text |-> r.text, deleted |-> r.deleted]

\* The outcome recorded for a finished concurrent merge.
Outcome(m) == [result |-> done[m].result, text |-> done[m].text, deleted |-> done[m].deleted]

\* C21: two merges that target different fids are independent: however their
\* read and commit steps interleave, each has the outcome, and the store ends
\* in the state, that running one after the other gives, in either order.
IndependentFids ==
    \A a \in DOMAIN done : \A b \in DOMAIN done :
        (pending = EmptyMap /\ a.fid # b.fid) =>
            /\ Outcome(a) = Alone(base, a)
            /\ Outcome(b) = Alone(MergeTxn(base, a).store, b)
            /\ Store = MergeTxn(MergeTxn(base, a).store, b).store

\* Two merges of different fids finished, one of them committed after the
\* store had changed under it, and one superseded the seeded message.
IndependentFidsWitness ==
    \E a \in DOMAIN done : \E b \in DOMAIN done :
        /\ pending = EmptyMap
        /\ a.fid # b.fid
        /\ done[a].stale
        /\ done[a].deleted # <<>> \/ done[b].deleted # <<>>

\* C22: a merge of a message of the wrong type for the store (a CastAdd given
\* to the Reaction store, a ReactionAdd given to the Cast store) fails with
\* an error, stores nothing and emits no event.
WrongTypeRejected ==
    [][(IsMergeStep /\ lastOp'.arg \notin MessagesOf(kind)) =>
          /\ lastOp'.result = "invalid_argument"
          /\ lastOp'.events = <<>>
          /\ NothingHappens]_vars

\* A message of the other family was offered to a store that holds messages.
WrongTypeRejectedWitness ==
    /\ lastOp.op = "merge"
    /\ lastOp.arg \notin MessagesOf(kind)
    /\ lastOp.arg.type \in {"CastAdd", "ReactionAdd"}
    /\ lastOp.result # "ok"
    /\ messages # EmptyMap

\* C23: the slot lookup of the Add set returns m exactly when m is the Add
\* that is the live winner of the slot and fails otherwise (slot empty, slot
\* won by a Remove, another fid, type or target); the lookup of the Remove
\* set mirrors it.
SlotLookup ==
    \A key \in LookupKeys(kind) :
        LET winners == { e \in Live : SlotKey(e) = key }
        IN  /\ \A m \in MessagesOf(kind) :
                  /\ getAdd(Store, key) = Found(m) <=> (IsAdd(m) /\ winners = {m})
                  /\ getRemove(Store, key) = Found(m) <=> (IsRemove(m) /\ winners = {m})
            /\ getAdd(Store, key) = NotFound <=> ~(\E m \in winners : IsAdd(m))
            /\ getRemove(Store, key) = NotFound <=> ~(\E m \in winners : IsRemove(m))

\* One slot of fid is won by an Add and found, another is won by a Remove whose
\* Add lookup fails.
SlotLookupWitness ==
    \E k1 \in LookupKeys(kind) : \E k2 \in LookupKeys(kind) :
        /\ getAdd(Store, k1).result = "ok"
        /\ getRemove(Store, k1) = NotFound
        /\ getRemove(Store, k2).result = "ok"
        /\ getAdd(Store, k2) = NotFound

\* The selectors the listings are called with.
Selectors ==
    { AddsOf("ANY"), AddsOf("LIKE"), AddsOf("RECAST"), RemovesOf("ANY"), AllMessages }

\* list holds exactly the messages of ms, each once, in ascending TsHash order.
Ascending(list, ms) ==
    /\ Range(list) = ms
    /\ \A i \in 1..Len(list) : \A j \in 1..Len(list) :
          i < j => TsHashOf(list[i]) < TsHashOf(list[j])

\* C24: the listing by fid returns the live messages of the requested kind
\* of that fid in ascending TsHash order, whatever the order they were merged
\* in: the Adds listing exactly the live Adds (of the type asked for), the
\* Removes listing exactly the live Removes, the all-messages listing both.
RangeListing ==
    \A f \in Fids : \A sel \in Selectors : \A peek \in BOOLEAN :
        LET r == getMessagesByFid(Store, f, sel, NoPage, peek)
        IN  /\ r.nextPageToken = 0
            /\ Ascending(r.messages, { m \in Live : m.fid = f /\ Matches(m, sel) })
            /\ (sel = AddsOf("ANY")) =>
                   Range(r.messages) = { m \in Live : m.fid = f /\ IsAdd(m) }
            /\ (sel = RemovesOf("ANY")) =>
                   Range(r.messages) = { m \in Live : m.fid = f /\ IsRemove(m) }
            /\ (sel = AllMessages) => Range(r.messages) = { m \in Live : m.fid = f }

\* The message merged last comes first in the listing of all messages of
\* fid, which holds an Add and a Remove; the Adds listing leaves the Remove out.
RangeListingWitness ==
    LET all == getMessagesByFid(Store, fid, AllMessages, NoPage, TRUE).messages
        as == getMessagesByFid(Store, fid, AddsOf("ANY"), NoPage, TRUE).messages
    IN  /\ lastOp.op = "merge"
        /\ lastOp.result = "ok"
        /\ Len(all) = 2
        /\ lastOp.arg = all[1]
        /\ Len(as) = 1

\* The listing calls that are paged: by fid the Adds, the Removes and all
\* messages, by target cast with and without a reaction type.
Queries ==
    { [by |-> "fid", key |-> f, sel |-> sel] :
         f \in Fids, sel \in {AddsOf("ANY"), RemovesOf("ANY"), AllMessages} }
    \cup { [by |-> "target", key |-> castId, sel |-> AddsOf(t)] : t \in {"ANY", "LIKE"} }

\* Page sizes: one message, as in the tests, and two.
PageSizes == {1, 2}

\* The messages of a list of pages, in order.
RECURSIVE Flatten(_)
Flatten(pages) ==
    IF pages = <<>> THEN <<>> ELSE Head(pages).messages \o Flatten(Tail(pages))

ShorterOf(a, b) == IF a < b THEN a ELSE b

ListingByTarget ==
    \A c \in {castId, unknownCastId} : \A t \in {"ANY", "LIKE", "RECAST"} :
        \A peek \in BOOLEAN :
            LET r == getMessagesByTarget(Store, c, AddsOf(t), NoPage, peek)
            IN  /\ r.nextPageToken = 0
                /\ Ascending(r.messages,
                             { m \in Live : /\ IsAdd(m)
                                            /\ m.target = c
                                            /\ t = "ANY" \/ m.reactionType = t })

\* The Reaction store holds a LIKE of each fid and a RECAST removed by fid:
\* the listing of the cast has the two LIKEs, the LIKE listing too, the RECAST
\* listing is empty.
ListingByTargetWitness ==
    /\ kind = "Reaction"
    /\ \E m \in Live : m.type = "ReactionRemove" /\ m.reactionType = "RECAST"
    /\ Len(getMessagesByTarget(Store, castId, AddsOf("ANY"), NoPage, TRUE).messages) = 2
    /\ Len(getMessagesByTarget(Store, castId, AddsOf("LIKE"), NoPage, TRUE).messages) = 2
    /\ getMessagesByTarget(Store, castId, AddsOf("RECAST"), NoPage, TRUE).messages = <<>>

\* In this step every stored record either stays as it is or is deleted, and
\* a record is deleted only by a call of one of the given operations that
\* reports it: a merge of a winner of its slot, or a prune or revoke that
\* returns it.
DeletionsFrom(ops) ==
    \A k \in DOMAIN messages :
        IF k \in DOMAIN messages'
        THEN messages'[k] = messages[k]
        ELSE /\ lastOp'.op \in ops
             /\ IF lastOp'.op = "merge"
                THEN /\ lastOp'.result = "ok"
                     /\ messages[k] \in Range(lastOp'.events[1].deletedMessages)
                     /\ SlotKey(messages[k]) = SlotKey(lastOp'.arg)
                     /\ PrimaryKey(lastOp'.arg) \in DOMAIN messages'
                ELSE messages[k] \in Range(lastOp'.value)

\* C27 as stated: the stored record of an admitted message is never changed
\* in place, and the only operations that delete it are a merge that
\* supersedes it and pruning.
LifecycleMergeOrPrune == [][DeletionsFrom({"merge", "prune"})]_vars

\* C27, amended: the stored record of an admitted message is never changed
\* in place; it is deleted only by a merge that supersedes it with a
\* conflicting winner, by pruning, or by the revocation of its signer.
Lifecycle == [][DeletionsFrom({"merge", "prune", "revoke"})]_vars

\* A revocation deleted a message and left another message of the store as
\* it was.
LifecycleWitness ==
    /\ lastOp.op = "revoke"
    /\ lastOp.value # <<>>
    /\ messages # EmptyMap

\* m is ordered after e: later timestamp, or the larger hash at equal timestamps.
Later(m, e) ==
    \/ m.timestamp > e.timestamp
    \/ m.timestamp = e.timestamp /\ m.hash > e.hash

\* C28: in the UserData store, of two UserDataAdds of the same (fid,
\* userDataType) the one with the later timestamp (the larger hash at equal
\* timestamps) is the live one afterwards in either arrival order: arriving
\* second it supersedes the other, and an earlier one that arrives second is
\* rejected as a conflict.
UserDataLaterWins ==
    [][IsMergeStep => \A m \in {lastOp'.arg} :
        \A e \in SlotLive(m) :
            /\ Later(m, e) => Supersedes(m, e)
            /\ Later(e, m) => RejectedBy(m, e)]_vars

\* A UserDataAdd with an earlier timestamp arrived after the live one of its
\* slot and was rejected.
UserDataLaterWinsWitness ==
    /\ lastOp.op = "merge"
    /\ lastOp.arg.type = "UserDataAdd"
    /\ lastOp.result = "bad_request.conflict"
    /\ \E e \in Live : /\ SlotKey(e) = SlotKey(lastOp.arg)
                        /\ e.timestamp > lastOp.arg.timestamp

\* C29: the tombstone of a cast.  A merge step never takes the tombstone
\* away and never makes the cast live: for every CastRemove that is live
\* before or after the step, after the step a CastRemove of the same cast is
\* live and the CastAdd with that hash is not.  So from the merge of a
\* CastRemove of hash h on, through any sequence of merges, the CastAdd with
\* hash h is never live.
Tombstone ==
    [][IsMergeStep => \A r \in Live \cup Live' :
        r.type = "CastRemove" =>
            /\ \E t \in Live' : t.type = "CastRemove" /\ SlotKey(t) = SlotKey(r)
            /\ \A a \in Live' : ~(a.type = "CastAdd" /\ SlotKey(a) = SlotKey(r))]_vars

\* After a CastRemove of a cast was merged and superseded by a later
\* CastRemove, the CastAdd arrived and was rejected.
TombstoneWitness ==
    /\ lastOp.op = "merge"
    /\ lastOp.arg.type = "CastAdd"
    /\ lastOp.result = "bad_request.conflict"
    /\ seq = 2
    /\ \E r \in Live : /\ r.type = "CastRemove"
                        /\ r.fid = lastOp.arg.fid
                        /\ r.target = lastOp.arg.hash

ThrowerFor(event) ==
    \E i \in 1..Len(listeners) : Throws(listeners[i]) /\ listeners[i][1] = event.type

\* C31: listener invocation is not isolated.  When a listener that throws is
\* invoked for an event of a merge, prune or revoke, the call fails with what
\* the listener threw, and the throwing invocation is the last thing the call
\* did; a call none of whose events has a throwing listener ends as it would
\* without listeners.
ListenerThrowPropagates ==
    lastOp.op \in {"merge", "prune", "revoke"} =>
        IF \E n \in 1..Len(lastOp.events) : ThrowerFor(lastOp.events[n])
        THEN /\ lastOp.result = "listener threw"
             /\ calls # <<>>
             /\ calls[Len(calls)] = <<"throwingListener", lastOp.events[Len(lastOp.events)]>>
             /\ \A k \in 1..(Len(calls) - 1) : calls[k][1] # "throwingListener"
        ELSE lastOp.result \in {"ok", "bad_request.duplicate", "bad_request.conflict"}

\* A merge failed with the exception of the throwing listener after the
\* listener registered before it had been invoked.
ListenerThrowPropagatesWitness ==
    /\ lastOp.op = "merge"
    /\ lastOp.result = "listener threw"
    /\ Len(calls) = 2
    /\ calls[1][1] = "mergeMessageHandler"
    /\ calls[2][1] = "throwingListener"
    /\ PrimaryKey(lastOp.arg) \in DOMAIN messages

\* The messages the prune or revoke call of this step set out to delete.
LoopList ==
    IF lastOp'.op = "prune"
    THEN PruneList(FidMessages(Store, lastOp'.arg[1]), lastOp'.arg[2],
                   FarcasterTime - lastOp'.arg[3])
    ELSE RevokeList(Store, lastOp'.arg[1], lastOp'.arg[2])

IsFailedLoop == lastOp'.op \in {"prune", "revoke"} /\ lastOp'.result = "unavailable"

\* C32: when a step of pruneMessages or revokeMessagesBySigner fails, the
\* loop stops at that step: the call hands back the error and the messages
\* deleted before the failure, which are the only ones gone and the only ones
\* with an event; the failing message and the messages after it stay live
\* with their index entries.
LoopStopsAtFailure ==
    [][IsFailedLoop =>
        \A list \in {LoopList} : \A deleted \in {lastOp'.value} :
            /\ Len(deleted) < Len(list)
            /\ deleted = SubSeq(list, 1, Len(deleted))
            /\ Live' = Live \ Range(deleted)
            /\ \A i \in (Len(deleted) + 1)..Len(list) : \A m \in {list[i]} : Wins(m)'
            /\ \A m \in Range(deleted) : Absent(m)'
            /\ Len(lastOp'.events) = Len(deleted)
            /\ \A i \in 1..Len(deleted) : lastOp'.events[i].message = deleted[i]]_vars

\* A prune failed at its second step: it handed back the first message, and
\* a message that is too old is still live.
LoopStopsAtFailureWitness ==
    /\ lastOp.op = "prune"
    /\ lastOp.result = "unavailable"
    /\ Len(lastOp.value) = 1
    /\ \E m \in FidMessages(Store, fid) : FarcasterTime - m.timestamp > lastOp.arg[3]

\* The batch of this step that failed, as the messages it deletes.
FailedDeletes ==
    IF lastOp'.op = "merge"
    THEN { e \in Live : SlotKey(e) = SlotKey(lastOp'.arg) }
    ELSE { LoopList[Len(lastOp'.value) + 1] }

\* The statement of C33 as written: after any call that ended with a
\* substrate failure the store is as it was before the call.
StoreAsBeforeCall ==
    [][lastOp'.result = "unavailable" => Store' = Store]_vars

\* C33: a substrate failure during an atomic batch leaves no partial state.
\* After a merge whose batch failed the store is as it was before the call,
\* with the messages the batch would have deleted live and the incoming
\* message absent; after a prune or revoke whose batch failed the store is as
\* the batches before it left it, with the message of the failed batch live
\* under all its index entries.  The call ends with the error unavailable
\* and publishes no event for the failed batch.
FailedBatchInvisible ==
    [][lastOp'.result = "unavailable" =>
        /\ lastOp'.op = "merge" =>
              /\ Store' = Store
              /\ seq' = seq
              /\ lastOp'.events = <<>>
              /\ \A m \in {lastOp'.arg} : Absent(m)'
        /\ lastOp'.op \in {"prune", "revoke"} =>
              Store' = DeleteMany(Store, lastOp'.value)
        /\ \A e \in FailedDeletes : Wins(e)'
        /\ seq' = seq + Len(lastOp'.events)]_vars

\* The batch of a merge that would have replaced the live message of the
\* slot failed: the live message is still there.
FailedBatchInvisibleWitness ==
    /\ lastOp.op = "merge"
    /\ lastOp.result = "unavailable"
    /\ \E e \in Live : /\ SlotKey(e) = SlotKey(lastOp.arg)
                        /\ TsHashOf(e) < TsHashOf(lastOp.arg)

\* C34: the text of a conflict error of the Reaction store names the kind
\* of the live winner of the slot, whatever the kind of the incoming message:
\* it is 'message conflicts with a more recent ReactionAdd' exactly when the
\* winner is a ReactionAdd and '... ReactionRemove' exactly when it is a
\* ReactionRemove.
ConflictTextNamesWinner ==
    [][(MergeConflict /\ kind = "Reaction") => \A m \in {lastOp'.arg} :
        /\ lastOp'.text \in {"message conflicts with a more recent ReactionAdd",
                             "message conflicts with a more recent ReactionRemove"}
        /\ lastOp'.text = "message conflicts with a more recent ReactionAdd"
              <=> \E e \in SlotLive(m) : e.type = "ReactionAdd"
        /\ lastOp'.text = "message conflicts with a more recent ReactionRemove"
              <=> \E e \in SlotLive(m) : e.type = "ReactionRemove"]_vars

\* A ReactionRemove has lost against the later ReactionAdd of its slot.
ConflictTextNamesWinnerWitness ==
    /\ lastOp.op = "merge"
    /\ lastOp.result = "bad_request.conflict"
    /\ lastOp.arg.type = "ReactionRemove"
    /\ lastOp.text = "message conflicts with a more recent ReactionAdd"
    /\ \E e \in SlotLive(lastOp.arg) : e.type = "ReactionAdd" /\ Wins(e)

\* The set of messages obtained by replaying a list of events in order: a
\* merge event adds its message and removes its deletedMessages, a prune or
\* revoke event removes its message.
RECURSIVE Replay(_)
Replay(events) ==
    IF events = <<>> THEN {}
    ELSE LET before == Replay(SubSeq(events, 1, Len(events) - 1))
             e == events[Len(events)]
         IN  IF e.type = "mergeMessage"
             THEN (before \ Range(e.deletedMessages)) \cup {e.message}
             ELSE before \ {e.message}

\* C35: the count that pruneMessages compares with the size limit is the
\* number of live messages of the fid, not the number of messages merged: a
\* prune in which no message is too old deletes as many messages as the
\* messages that were merged and neither superseded nor deleted since exceed
\* the limit, and none when they do not.
PruneCountsLive ==
    [][(/\ lastOp'.op = "prune"
        /\ \A m \in FidMessages(Store, fid) : FarcasterTime - m.timestamp <= lastOp'.arg[3])
       => \A n \in {Cardinality({ m \in Replay(log) : m.fid = lastOp'.arg[1] })} :
            Len(lastOp'.value) = IF n > lastOp'.arg[2] THEN n - lastOp'.arg[2] ELSE 0]_vars

\* Two messages were merged, the second superseded the first, and a prune
\* with size limit 1 deleted nothing.
PruneCountsLiveWitness ==
    /\ lastOp.op = "prune"
    /\ lastOp.arg[2] = 1
    /\ lastOp.value = <<>>
    /\ Len(log) = 2
    /\ log[2].type = "mergeMessage"
    /\ log[2].deletedMessages = << log[1].message >>
    /\ Live = { log[2].message }

\* C39: the event log determines the store: replaying the events published
\* so far in the order of their ids gives exactly the live messages.
LogDeterminesStore ==
    /\ \A i \in 1..Len(log) : log[i].id = i
    /\ Replay(log) = Live

\* The log holds a merge that superseded a message and, after it, the event
\* of a prune or revoke.
LogDeterminesStoreWitness ==
    /\ Len(log) >= 3
    /\ \E i \in 1..Len(log) : /\ log[i].type = "mergeMessage"
                               /\ log[i].deletedMessages # <<>>
    /\ log[Len(log)].type \in {"pruneMessage", "revokeMessage"}

\* The index entries of the messages of the slot of m, m included.
SlotIndexKeys(m) ==
    UNION { IndexKeys(e) : e \in { x \in Live \cup {m} : SlotKey(x) = SlotKey(m) } }

\* C36: a successful merge changes only the slot of the incoming message:
\* the live messages of every other slot (same fid and target with another
\* reaction type, another cast, another fid) are the same before and after,
\* with the same slot and index entries.
MergeFrame ==
    [][(IsMergeStep /\ lastOp'.result = "ok") => \A m \in {lastOp'.arg} :
        /\ \A e \in Live : SlotKey(e) # SlotKey(m) => Wins(e)' /\ IndexKeys(e) \subseteq index'
        /\ \A k \in DOMAIN messages' :
              SlotKey(messages'[k]) # SlotKey(m) =>
                  k \in DOMAIN messages /\ messages[k] = messages'[k]
        /\ DOMAIN adds' \ {SlotKey(m)} = DOMAIN adds \ {SlotKey(m)}
        /\ DOMAIN removes' \ {SlotKey(m)} = DOMAIN removes \ {SlotKey(m)}
        /\ index' \ SlotIndexKeys(m) = index \ SlotIndexKeys(m)]_vars

\* A reaction was merged over the live message of its slot while a reaction
\* of the other type by the same fid on the same cast was live.
MergeFrameWitness ==
    /\ kind = "Reaction"
    /\ lastOp.op = "merge"
    /\ lastOp.result = "ok"
    /\ lastOp.events[1].deletedMessages # <<>>
    /\ \E e \in Live : /\ e.fid = lastOp.arg.fid
                        /\ e.target = lastOp.arg.target
                        /\ e.reactionType # lastOp.arg.reactionType

\* C37: each slot holds at most one live message in total, an Add or a
\* Remove: two messages of one slot, two Removes among them, are never live
\* together, and no slot has an entry in both slot indexes.
OneLivePerSlot ==
    /\ \A s \in { SlotKey(e) : e \in Live } :
          Cardinality({ e \in Live : SlotKey(e) = s }) = 1
    /\ DOMAIN adds \cap DOMAIN removes = {}

\* A Remove has superseded the earlier Remove of its slot and is the only
\* message of the slot.
OneLivePerSlotWitness ==
    /\ lastOp.op = "merge"
    /\ lastOp.result = "ok"
    /\ IsRemove(lastOp.arg)
    /\ Len(lastOp.events[1].deletedMessages) = 1
    /\ IsRemove(lastOp.events[1].deletedMessages[1])
    /\ SlotLive(lastOp.arg) = { lastOp.arg }

\* The total order of the messages of one slot: later timestamp, then Remove
\* above Add, then larger hash.
Above(a, b) ==
    \/ a.timestamp > b.timestamp
    \/ a.timestamp = b.timestamp /\ IsRemove(a) /\ IsAdd(b)
    \/ a.timestamp = b.timestamp /\ IsRemove(a) = IsRemove(b) /\ a.hash > b.hash

\* The messages submitted for a slot.
Submitted(slot) == { m \in recv : SlotKey(m) = slot }

\* C38: in the Reaction store, after merges only, the live message of each
\* slot is the maximum of all messages submitted for the slot in the total
\* order (timestamp, Remove above Add, larger hash), and every other
\* submitted message is absent.
LiveIsMaximum ==
    kind = "Reaction" =>
        \A slot \in { SlotKey(m) : m \in recv } :
            \E top \in Submitted(slot) :
                /\ \A o \in Submitted(slot) \ {top} : Above(top, o) /\ Absent(o)
                /\ Wins(top)
                /\ { e \in Live : SlotKey(e) = slot } = {top}

\* Three reactions were submitted for one slot; the ReactionAdd that came
\* last has the timestamp of the live ReactionRemove and lost against it.
LiveIsMaximumWitness ==
    /\ kind = "Reaction"
    /\ Cardinality(recv) = 3
    /\ \A a, b \in recv : SlotKey(a) = SlotKey(b)
    /\ lastOp.op = "merge"
    /\ IsAdd(lastOp.arg)
    /\ \E r \in recv : /\ IsRemove(r)
                        /\ r.timestamp = lastOp.arg.timestamp
                        /\ Live = {r}

\* C40: pruneMessages is idempotent: a pruneMessages(fid) that follows a
\* pruneMessages(fid) with the same limits, with no merge in between and the
\* clock unchanged, returns the empty list, publishes no event and changes
\* neither the store nor the log.
PruneIdempotent ==
    [][(/\ lastOp.op = "prune"
        /\ lastOp.result = "ok"
        /\ lastOp'.op = "prune"
        /\ lastOp'.arg = lastOp.arg)
       => /\ lastOp'.result = "ok"
          /\ lastOp'.value = <<>>
          /\ lastOp'.events = <<>>
          /\ Store' = Store
          /\ seq' = seq
          /\ log' = log]_vars

\* The last event of the log is a prune event, and the last call was a
\* pruneMessages that returned the empty list although its limits do not
\* admit the message of that event: the prune before it had deleted it.
PruneIdempotentWitness ==
    /\ lastOp.op = "prune"
    /\ lastOp.result = "ok"
    /\ lastOp.value = <<>>
    /\ Len(log) >= 1
    /\ log[Len(log)].type = "pruneMessage"
    /\ \/ FarcasterTime - log[Len(log)].message.timestamp > lastOp.arg[3]
       \/ Cardinality(FidMessages(Store, fid)) + 1 > lastOp.arg[2]

====
